---- MODULE Spec2Model ----
(***************************************************************************)
(* Job/progress store and progress tracker of the stock-analyzer python    *)
(* service: data/redis_task_store.py (MemoryTaskStore, RedisTaskStore) and *)
(* data/progress.py (ProgressTracker and the stage_* helpers).             *)
(*                                                                         *)
(* Time is a discrete clock `now`; timestamps (created_at, updated_at) are *)
(* clock values, NoTime standing for the empty string of a TaskData that   *)
(* was never stored.  Non-ASCII message texts of the source are written as *)
(* ASCII tokens.  None is the string "None".  A tracker's details and       *)
(* subscribers take no part in the stage and progress it holds and are not *)
(* among its modelled fields.                                              *)
(***************************************************************************)
EXTENDS Integers, FiniteSets, Sequences, TLC

\* ---------------------------------------------------------------- bounds
NumJobs == 2            \* job ids in play
MaxTime == 3            \* the clock stops here
job_ttl == 2            \* MemoryTaskStore.job_ttl (3600 s), in clock ticks
DEFAULT_TTL == 2        \* RedisTaskStore.DEFAULT_TTL (3600 s), in clock ticks
max_jobs == 1           \* MemoryTaskStore.max_jobs / MAX_TASKS (500), scaled

NumClients == 2         \* clients of the Redis server with a call in flight
MaxStores == 3          \* calls of get_task_store in a process
NumCoroutines == 2      \* coroutines calling ProgressTracker.get / remove
MaxGets == 4            \* calls of ProgressTracker.get / remove in a run

JobIds == 1..NumJobs
Clients == 1..NumClients
None == "None"
NoTime == -1
Results == {"report"}
Errors == {"e1"}

NoExpire == -1          \* a Redis key with no expiry set

VARIABLES
    now,        \* datetime.now(), the wall clock
    jobs,       \* MemoryTaskStore.jobs : job id -> TaskData
    ret,        \* what the store call that just returned gave its caller;
                \* forgotten when the clock advances
    rconn,      \* RedisTaskStore._redis is not None
    rkeys,      \* Redis: job id -> [h: the hash at KEY_PREFIX + job id, exp: its expiry]
    rids,       \* Redis: the set at KEY_PREFIX + "ids"
    ridsExp,    \* Redis: the expiry of that set
    instances,  \* ProgressTracker._instances : job id -> tracker
    pret,       \* what the progress call that just returned gave its caller
    calls,      \* RedisTaskStore calls in flight: client -> the call's position
    rcall,      \* the last thresholding of a score: the score and the tier
    wcall,      \* the weighted scoring that has run: scores, overall score, tier
    pcall,      \* the parse_crew_result call that has run: its input and result
    crew,       \* the crew of the /api/analyze request: the tasks it started,
                \* their outputs, the task that raised
    aresp,      \* the answer of /api/analyze
    collect,    \* the /api/collect request: its input, the collector's outcome
                \* and the answer
    llm,        \* the object get_deepseek_llm returned and what calling it gave
    cfg,        \* the environment, the Config built from it and what the
                \* last call on it returned
    ret2,       \* what the RedisTaskStore call gave when both stores are
                \* driven with the same calls (ret holds the other answer)
    gts,        \* get_task_store: RedisTaskStore._instance and the stores
                \* the calls have returned
    pget,       \* ProgressTracker.get calls in flight and the trackers made
    sub,        \* a tracker's subscribers and the notification in progress
    coll        \* collect_a_share_data: the attempt it is in and its result

redisVars == <<rconn, rkeys, rids, ridsExp>>
progVars == <<instances, pret>>
scoreVars == <<rcall, wcall>>
crewVars == <<pcall>>
svcVars == <<crew, aresp, collect, llm>>
lateVars == <<cfg, ret2, gts, pget, sub, coll>>
analysisVars == <<scoreVars, crewVars, svcVars, lateVars>>
extVars == <<calls, analysisVars>>
vars == <<now, jobs, ret, rconn, rkeys, rids, ridsExp, instances, pret, calls,
          rcall, wcall, pcall, crew, aresp, collect, llm, cfg, ret2, gts,
          pget, sub, coll>>

\* ------------------------------------------------------------- TaskData
\* TaskData(symbol, market) with the dataclass defaults.
TaskData(symbol, market) ==
    [symbol |-> symbol, market |-> market, status |-> "pending", progress |-> 0,
     stage |-> "starting", message |-> "msg_starting", result |-> None,
     error |-> None, created_at |-> NoTime, updated_at |-> NoTime]

\* The "no task" placeholder of ret.task when the call returned no TaskData.
NoTask == [TaskData("", "") EXCEPT !.status = None]

\* f"<error prefix>: {error}" of fail()
ErrorMessage(error) == CASE error = "e1" -> "msg_error: e1"
                         [] OTHER -> "msg_error: ?"

\* The keyword arguments a caller of update() passes: a stage transition.
Kwargs ==
    { [status |-> "running", stage |-> "collect_basic", progress |-> 10] }

\* for key, value in kwargs.items(): setattr(task, key, value)
SetAttrs(task, kwargs) ==
    [f \in DOMAIN task |-> IF f \in DOMAIN kwargs THEN kwargs[f] ELSE task[f]]

Ret(op, id, val, task, ids) ==
    [op |-> op, id |-> id, val |-> val, task |-> task, ids |-> ids]

NoRet == Ret("none", 0, None, NoTask, {})

PRet(op, id, val, stage, progress) ==
    [op |-> op, id |-> id, val |-> val, stage |-> stage, progress |-> progress]

NoPRet == PRet("none", 0, None, None, 0)

\* A client with no store call in flight.
IdleCall ==
    [op |-> "idle", pc |-> "idle", id |-> 0, todo |-> {}, cur |-> 0, ttl |-> 0]

\* The variables of the other specifications at rest.
\* The six independent analyst roles.
Roles == {"value", "technical", "growth", "fundamental", "risk", "macro"}

\* No thresholding has run; no weighted scoring has run.
NoRCall == [fn |-> "none", score |-> 0, recommendation |-> None]
NoWCall == [fn |-> "none", raised |-> FALSE, scores |-> [r \in Roles |-> 0],
            overall |-> 0, overallScore |-> 0, summary |-> 0,
            recommendation |-> None]

\* An analysis as a dict: the keys it has among overallScore, recommendation
\* and confidence, their values (0 and None where the key is missing) and the
\* branch of the parser that made it.
Analysis(has, overallScore, recommendation, confidence, via) ==
    [has |-> has, overallScore |-> overallScore,
     recommendation |-> recommendation, confidence |-> confidence, via |-> via]

AnalysisKeys == {"overallScore", "recommendation", "confidence"}

\* {}
EmptyDict == Analysis({}, 0, None, 0, "dict")

\* parse_crew_result has not been called.
NoPCall == [op |-> "none", result |-> [kind |-> "none", tasks_output |-> <<>>],
            analysis |-> EmptyDict]

\* No /api/analyze request has come in; no answer has gone out.
NoCrew == [pc |-> "idle", draw |-> [r \in Roles |-> 0],
           data |-> [pe |-> "mid", pb |-> "mid", roe |-> "mid", debt |-> "mid"],
           started |-> <<>>, running |-> None, tasks_output |-> <<>>,
           raised |-> None]
NoAResp == [status |-> 0, success |-> FALSE, source |-> "none",
            analysis |-> EmptyDict, mock |-> NoWCall]

\* No /api/collect request has come in.
NoCollect == [pc |-> "idle", symbol |-> None, market |-> None,
              outcome |-> "none", error |-> None, status |-> 0,
              success |-> FALSE, data |-> "none", detail |-> None]

\* get_deepseek_llm has not been called.
NoLlm == [pc |-> "idle", class |-> "none",
          data |-> [pe |-> "missing", roe |-> "missing", debt |-> "missing"],
          message |-> "none", out |-> "none", text |-> None]

\* No Config has been built.
NoCfg == [pc |-> "none",
          env |-> [LLM_PROVIDER |-> None, LLM_MODEL |-> None,
                   keys |-> [p \in {"deepseek", "minimax", "zhipu", "qwen"}
                                |-> None]],
          LLM_PROVIDER |-> "deepseek", LLM_MODEL |-> "deepseek-chat",
          LLM_API_BASE |-> "api.deepseek.com", LLM_API_KEY |-> None,
          op |-> "none", arg |-> None, ok |-> FALSE, key |-> None,
          error |-> None]

\* get_task_store has not been called: Redis is not reachable, there is no
\* RedisTaskStore._instance and no store has been handed out.
NoGts == [up |-> FALSE, instance |-> None, stores |-> <<>>, rjobs |-> {},
          op |-> "none", h |-> 0, id |-> 0, found |-> FALSE]
\* A coroutine that is not inside ProgressTracker.get or remove.
NoCoroutine == [pc |-> "idle", op |-> "none", id |-> 0, val |-> 0,
                overlap |-> FALSE]

\* No coroutine has called ProgressTracker.get: the lock is free, no tracker
\* was made, nothing is registered.
NoPGet == [lock |-> 0, reg |-> <<>>, made |-> 0, n |-> 0,
           co |-> [c \in 1..NumCoroutines |-> NoCoroutine],
           returned |-> [j \in JobIds |-> {}]]
\* A new ProgressTracker with no subscriber and no update made.
NoSub == [subscribers |-> <<>>, stage |-> "start", progress |-> 0,
          message |-> "msg_start", op |-> "none", start |-> <<>>,
          invoked |-> <<>>]
\* collect_a_share_data has not been called.
NoColl == [pc |-> "idle", module |-> None, symbol |-> None, attempt |-> 0,
           outcomes |-> <<>>, returned |-> "pending", success |-> FALSE,
           error |-> None, basic |-> FALSE]

ExtIdle ==
    /\ calls = [c \in Clients |-> IdleCall]
    /\ rcall = NoRCall
    /\ wcall = NoWCall
    /\ pcall = NoPCall
    /\ crew = NoCrew
    /\ aresp = NoAResp
    /\ collect = NoCollect
    /\ llm = NoLlm
    /\ cfg = NoCfg
    /\ ret2 = NoRet
    /\ gts = NoGts
    /\ pget = NoPGet
    /\ sub = NoSub
    /\ coll = NoColl

\* ------------------------------------------------------ MemoryTaskStore
\* (datetime.now() - created).total_seconds() > self.job_ttl
MemExpired(task, t) ==
    /\ task.created_at # NoTime
    /\ t - task.created_at > job_ttl

\* _check_ttl: drops the job from the dict when it is past its TTL.
Mem_check_ttl(js, job_id, t) ==
    IF MemExpired(js[job_id], t)
    THEN [k \in DOMAIN js \ {job_id} |-> js[k]]
    ELSE js

\* _cleanup_expired: drops every job past its TTL.
Mem_cleanup_expired(js, t) ==
    [k \in {i \in DOMAIN js : ~MemExpired(js[i], t)} |-> js[k]]

StoreInit ==
    /\ now = 0
    /\ jobs = <<>>
    /\ ret = NoRet
    /\ rkeys = <<>>
    /\ rids = {}
    /\ ridsExp = NoExpire
    /\ instances = <<>>
    /\ pret = NoPRet
    /\ ExtIdle

MemInit ==
    /\ StoreInit
    /\ rconn = FALSE

MemCreate(job_id) ==
    LET task == [TaskData("000001", "A") EXCEPT !.created_at = now, !.updated_at = now]
        stored == [k \in DOMAIN jobs \cup {job_id} |->
                      IF k = job_id THEN task ELSE jobs[k]]
    IN /\ jobs' = Mem_cleanup_expired(stored, now)
       /\ ret' = Ret("create", job_id, "True", NoTask, {})
       /\ UNCHANGED <<now, redisVars, progVars, extVars>>

MemGet(job_id) ==
    /\ IF job_id \in DOMAIN jobs
       THEN /\ jobs' = Mem_check_ttl(jobs, job_id, now)
            /\ ret' = Ret("get", job_id, "Task", jobs[job_id], {})
       ELSE /\ jobs' = jobs
            /\ ret' = Ret("get", job_id, None, NoTask, {})
    /\ UNCHANGED <<now, redisVars, progVars, extVars>>

MemUpdate(job_id, kwargs) ==
    /\ IF job_id \notin DOMAIN jobs
       THEN /\ jobs' = jobs
            /\ ret' = Ret("update", job_id, "False", NoTask, {})
       ELSE /\ jobs' = [jobs EXCEPT ![job_id] =
                          [SetAttrs(@, kwargs) EXCEPT !.updated_at = now]]
            /\ ret' = Ret("update", job_id, "True", NoTask, {})
    /\ UNCHANGED <<now, redisVars, progVars, extVars>>

MemComplete(job_id, result) ==
    /\ IF job_id \notin DOMAIN jobs
       THEN /\ jobs' = jobs
            /\ ret' = Ret("complete", job_id, "False", NoTask, {})
       ELSE /\ jobs' = [jobs EXCEPT ![job_id] =
                          [@ EXCEPT !.status = "completed", !.progress = 100,
                                    !.stage = "complete", !.message = "msg_complete",
                                    !.result = result, !.updated_at = now]]
            /\ ret' = Ret("complete", job_id, "True", NoTask, {})
    /\ UNCHANGED <<now, redisVars, progVars, extVars>>

MemFail(job_id, error) ==
    /\ IF job_id \notin DOMAIN jobs
       THEN /\ jobs' = jobs
            /\ ret' = Ret("fail", job_id, "False", NoTask, {})
       ELSE /\ jobs' = [jobs EXCEPT ![job_id] =
                          [@ EXCEPT !.status = "failed", !.stage = "error",
                                    !.message = ErrorMessage(error),
                                    !.error = error, !.updated_at = now]]
            /\ ret' = Ret("fail", job_id, "True", NoTask, {})
    /\ UNCHANGED <<now, redisVars, progVars, extVars>>

MemDelete(job_id) ==
    /\ IF job_id \in DOMAIN jobs
       THEN /\ jobs' = [k \in DOMAIN jobs \ {job_id} |-> jobs[k]]
            /\ ret' = Ret("delete", job_id, "True", NoTask, {})
       ELSE /\ jobs' = jobs
            /\ ret' = Ret("delete", job_id, "False", NoTask, {})
    /\ UNCHANGED <<now, redisVars, progVars, extVars>>

MemListAll ==
    /\ ret' = Ret("list_all", 0, "Dict", NoTask, DOMAIN jobs)
    /\ UNCHANGED <<now, jobs, redisVars, progVars, extVars>>

\* The wall clock advances between calls.
Tick ==
    /\ now < MaxTime
    /\ now' = now + 1
    /\ ret' = NoRet
    /\ UNCHANGED <<jobs, redisVars, progVars, extVars>>

MemNext ==
    \/ \E j \in JobIds : MemCreate(j)
    \/ \E j \in JobIds : MemGet(j)
    \/ \E j \in JobIds, kw \in Kwargs : MemUpdate(j, kw)
    \/ \E j \in JobIds, r \in Results : MemComplete(j, r)
    \/ \E j \in JobIds, e \in Errors : MemFail(j, e)
    \/ \E j \in JobIds : MemDelete(j)
    \/ MemListAll
    \/ Tick

SpecMemory == MemInit /\ [][MemNext]_vars

\* ------------------------------------------------------- RedisTaskStore
\* The Redis server and client are modelled by the commands the store issues:
\* HSET creates the hash when the key is missing and sets the given fields,
\* EXPIRE sets the key's expiry to now + ttl when the key exists, TTL answers
\* -2 for a missing key and -1 for a key with no expiry, a key is gone once
\* its expiry time is reached, and the client refuses to encode None
\* (redis.DataError, a RedisError).  While connected, the server answers
\* every command: a connection lost after construction is not modelled.
TaskFields == DOMAIN TaskData("", "")

\* The client's encoding of a field value: numbers become their decimal text.
RedisEncode(mapping) ==
    [f \in DOMAIN mapping |->
        IF f = "progress" THEN ToString(mapping[f]) ELSE mapping[f]]

RedisEncodable(mapping) ==
    \A f \in DOMAIN mapping \ {"created_at", "updated_at", "progress"} :
        mapping[f] # None

\* json.dumps(result)
JsonDumps(result) == CASE result = "report" -> "json:report"
                       [] OTHER -> "json:?"

HSet(keys, job_id, mapping) ==
    LET old == IF job_id \in DOMAIN keys THEN keys[job_id].h ELSE <<>>
        new == [f \in DOMAIN old \cup DOMAIN mapping |->
                   IF f \in DOMAIN mapping THEN mapping[f] ELSE old[f]]
        exp == IF job_id \in DOMAIN keys THEN keys[job_id].exp ELSE NoExpire
    IN [k \in DOMAIN keys \cup {job_id} |->
           IF k = job_id THEN [h |-> new, exp |-> exp] ELSE keys[k]]

Expire(keys, job_id, ttl) ==
    [k \in DOMAIN keys |->
        IF k = job_id THEN [keys[k] EXCEPT !.exp = now + ttl] ELSE keys[k]]

Del(keys, job_id) == [k \in DOMAIN keys \ {job_id} |-> keys[k]]

\* RedisTaskStore._cleanup_expired over the members of the id set: a key
\* without expiry gets one, the id of a missing key leaves the id set.
Redis_cleanup_keys(keys, ids) ==
    [k \in DOMAIN keys |->
        IF k \in ids /\ keys[k].exp = NoExpire
        THEN [keys[k] EXCEPT !.exp = now + DEFAULT_TTL] ELSE keys[k]]

Redis_cleanup_ids(keys, ids) == {j \in ids : j \in DOMAIN keys}

\* TaskData.from_dict(data) = cls(**data): a TypeError when a required field
\* (symbol, market) is missing or a key is no field of TaskData.
FromDictRaises(h) ==
    ~({"symbol", "market"} \subseteq DOMAIN h /\ DOMAIN h \subseteq TaskFields)

FromDict(h) ==
    [f \in TaskFields |-> IF f \in DOMAIN h THEN h[f] ELSE TaskData("", "")[f]]

\* The tasks the callers of create() pass: the dataclass defaults, and a
\* task whose result and error are empty strings.
CreateTasks ==
    { TaskData("000001", "A"),
      [TaskData("000001", "A") EXCEPT !.result = "", !.error = ""] }

RedisInit ==
    /\ StoreInit
    /\ rconn \in BOOLEAN

RedisCreate(job_id, task) ==
    LET t == [task EXCEPT !.created_at = now, !.updated_at = now]
        k1 == Expire(HSet(rkeys, job_id, RedisEncode(t)), job_id, DEFAULT_TTL)
        i1 == rids \cup {job_id}
    IN /\ IF ~rconn \/ ~RedisEncodable(t)
          THEN /\ UNCHANGED <<rkeys, rids, ridsExp>>
               /\ ret' = Ret("create", job_id, "False", NoTask, {})
          ELSE /\ rkeys' = Redis_cleanup_keys(k1, i1)
               /\ rids' = Redis_cleanup_ids(k1, i1)
               /\ ridsExp' = now + DEFAULT_TTL
               /\ ret' = Ret("create", job_id, "True", NoTask, {})
       /\ UNCHANGED <<now, jobs, rconn, progVars, extVars>>

RedisGet(job_id) ==
    /\ IF ~rconn \/ job_id \notin DOMAIN rkeys
       THEN ret' = Ret("get", job_id, None, NoTask, {})
       ELSE IF FromDictRaises(rkeys[job_id].h)
            THEN ret' = Ret("get", job_id, "raise TypeError", NoTask, {})
            ELSE ret' = Ret("get", job_id, "Task", FromDict(rkeys[job_id].h), {})
    /\ UNCHANGED <<now, jobs, redisVars, progVars, extVars>>

RedisUpdate(job_id, kwargs) ==
    LET mapping == [f \in DOMAIN kwargs \cup {"updated_at"} |->
                       IF f = "updated_at" THEN now ELSE kwargs[f]]
    IN /\ IF ~rconn
          THEN /\ UNCHANGED rkeys
               /\ ret' = Ret("update", job_id, "False", NoTask, {})
          ELSE /\ rkeys' = Expire(HSet(rkeys, job_id, RedisEncode(mapping)),
                                  job_id, DEFAULT_TTL)
               /\ ret' = Ret("update", job_id, "True", NoTask, {})
       /\ UNCHANGED <<now, jobs, rconn, rids, ridsExp, progVars, extVars>>

RedisComplete(job_id, result) ==
    LET mapping == [status |-> "completed", progress |-> 100, stage |-> "complete",
                    message |-> "msg_complete", result |-> JsonDumps(result),
                    updated_at |-> now]
    IN /\ IF ~rconn
          THEN /\ UNCHANGED rkeys
               /\ ret' = Ret("complete", job_id, "False", NoTask, {})
          ELSE /\ rkeys' = HSet(rkeys, job_id, RedisEncode(mapping))
               /\ ret' = Ret("complete", job_id, "True", NoTask, {})
       /\ UNCHANGED <<now, jobs, rconn, rids, ridsExp, progVars, extVars>>

RedisFail(job_id, error) ==
    LET mapping == [status |-> "failed", stage |-> "error",
                    message |-> ErrorMessage(error), error |-> error,
                    updated_at |-> now]
    IN /\ IF ~rconn
          THEN /\ UNCHANGED rkeys
               /\ ret' = Ret("fail", job_id, "False", NoTask, {})
          ELSE /\ rkeys' = HSet(rkeys, job_id, RedisEncode(mapping))
               /\ ret' = Ret("fail", job_id, "True", NoTask, {})
       /\ UNCHANGED <<now, jobs, rconn, rids, ridsExp, progVars, extVars>>

RedisDelete(job_id) ==
    /\ IF ~rconn
       THEN /\ UNCHANGED <<rkeys, rids, ridsExp>>
            /\ ret' = Ret("delete", job_id, "False", NoTask, {})
       ELSE /\ rkeys' = Del(rkeys, job_id)
            /\ rids' = rids \ {job_id}
            /\ ridsExp' = IF rids \ {job_id} = {} THEN NoExpire ELSE ridsExp
            /\ ret' = Ret("delete", job_id, "True", NoTask, {})
    /\ UNCHANGED <<now, jobs, rconn, progVars, extVars>>

\* list_all: get() of every member of the id set; a TypeError of from_dict
\* is no RedisError and leaves list_all.
RedisListAll ==
    /\ IF ~rconn
       THEN ret' = Ret("list_all", 0, "Dict", NoTask, {})
       ELSE IF \E j \in rids : j \in DOMAIN rkeys /\ FromDictRaises(rkeys[j].h)
            THEN ret' = Ret("list_all", 0, "raise TypeError", NoTask, {})
            ELSE ret' = Ret("list_all", 0, "Dict", NoTask,
                            {j \in rids : j \in DOMAIN rkeys})
    /\ UNCHANGED <<now, jobs, redisVars, progVars, extVars>>

\* The clock advances; Redis drops the keys whose expiry time is reached.
RedisTick ==
    /\ now < MaxTime
    /\ now' = now + 1
    /\ rkeys' = [k \in {i \in DOMAIN rkeys :
                          rkeys[i].exp = NoExpire \/ now + 1 < rkeys[i].exp}
                   |-> rkeys[k]]
    /\ IF ridsExp # NoExpire /\ now + 1 >= ridsExp
       THEN rids' = {} /\ ridsExp' = NoExpire
       ELSE UNCHANGED <<rids, ridsExp>>
    /\ ret' = NoRet
    /\ UNCHANGED <<jobs, rconn, progVars, extVars>>

RedisNext ==
    \/ \E j \in JobIds, t \in CreateTasks : RedisCreate(j, t)
    \/ \E j \in JobIds : RedisGet(j)
    \/ \E j \in JobIds, kw \in Kwargs : RedisUpdate(j, kw)
    \/ \E j \in JobIds, r \in Results : RedisComplete(j, r)
    \/ \E j \in JobIds, e \in Errors : RedisFail(j, e)
    \/ \E j \in JobIds : RedisDelete(j)
    \/ RedisListAll
    \/ RedisTick

SpecRedis == RedisInit /\ [][RedisNext]_vars

\* ------------------------------------- RedisTaskStore, command by command
\* Several clients (worker processes, threads) share the Redis server.  The
\* server runs one command, or one MULTI/EXEC pipeline, at a time; a store
\* call that issues several of them can be overtaken between any two:
\*   create  : pipeline(HSET, EXPIRE, SADD, EXPIRE) ; _cleanup_expired
\*   _cleanup_expired : SMEMBERS ; for each id: TTL ; EXPIRE or
\*                      pipeline(DEL, SREM)
\*   update  : HSET ; EXPIRE
ConcInit ==
    /\ StoreInit
    /\ rconn = TRUE

\* The call of client c moves to `call`.
SetCall(c, call) == [calls EXCEPT ![c] = call]

\* The sweep of client c is through with one id: on to the next id of the
\* snapshot, or back to the caller when none is left.
SweepOn(c, rest) ==
    IF rest = {} THEN SetCall(c, IdleCall)
    ELSE SetCall(c, [calls[c] EXCEPT !.pc = "ttl", !.todo = rest,
                                 !.cur = 0, !.ttl = 0])

\* create(job_id, task), lines 124-137: the pipeline; a task the client
\* cannot encode raises DataError out of execute() and create returns False.
ConcCreate(c, job_id, task) ==
    LET t == [task EXCEPT !.created_at = now, !.updated_at = now]
    IN /\ calls[c].op = "idle"
       /\ IF ~RedisEncodable(t)
          THEN UNCHANGED <<rkeys, rids, ridsExp, calls>>
          ELSE /\ rkeys' = Expire(HSet(rkeys, job_id, RedisEncode(t)),
                                  job_id, DEFAULT_TTL)
               /\ rids' = rids \cup {job_id}
               /\ ridsExp' = now + DEFAULT_TTL
               /\ calls' = SetCall(c, [IdleCall EXCEPT !.op = "create",
                                          !.pc = "smembers", !.id = job_id])
       /\ UNCHANGED <<now, jobs, ret, rconn, progVars, analysisVars>>

\* _cleanup_expired, line 335: job_ids = smembers(job_ids_key)
ConcSweepMembers(c) ==
    /\ calls[c].pc = "smembers"
    /\ calls' = SweepOn(c, rids)
    /\ UNCHANGED <<now, jobs, ret, redisVars, progVars, analysisVars>>

\* _cleanup_expired, line 340: ttl = ttl(key) of one id of the snapshot
\* (a Python set is walked in no particular order).
ConcSweepTtl(c, job_id) ==
    LET ttl == IF job_id \notin DOMAIN rkeys THEN -2
               ELSE IF rkeys[job_id].exp = NoExpire THEN -1
               ELSE rkeys[job_id].exp - now
    IN /\ calls[c].pc = "ttl"
       /\ job_id \in calls[c].todo
       /\ calls' = IF ttl \in {-1, -2}
                   THEN SetCall(c, [calls[c] EXCEPT !.pc = "fix", !.cur = job_id,
                                       !.ttl = ttl])
                   ELSE SweepOn(c, calls[c].todo \ {job_id})
       /\ UNCHANGED <<now, jobs, ret, redisVars, progVars, analysisVars>>

\* _cleanup_expired, lines 341-348: expire(key) after ttl == -1, the
\* pipeline delete(key), srem(job_ids_key, job_id) after ttl == -2.
ConcSweepFix(c) ==
    LET job_id == calls[c].cur
    IN /\ calls[c].pc = "fix"
       /\ IF calls[c].ttl = -1
          THEN /\ rkeys' = Expire(rkeys, job_id, DEFAULT_TTL)
               /\ UNCHANGED <<rids, ridsExp>>
          ELSE /\ rkeys' = Del(rkeys, job_id)
               /\ rids' = rids \ {job_id}
               /\ ridsExp' = IF rids \ {job_id} = {} THEN NoExpire ELSE ridsExp
       /\ calls' = SweepOn(c, calls[c].todo \ {job_id})
       /\ UNCHANGED <<now, jobs, ret, rconn, progVars, analysisVars>>

\* update(job_id, **kwargs), line 191: hset(key, mapping=kwargs)
ConcUpdateHSet(c, job_id, kwargs) ==
    LET mapping == [f \in DOMAIN kwargs \cup {"updated_at"} |->
                       IF f = "updated_at" THEN now ELSE kwargs[f]]
    IN /\ calls[c].op = "idle"
       /\ rkeys' = HSet(rkeys, job_id, RedisEncode(mapping))
       /\ calls' = SetCall(c, [IdleCall EXCEPT !.op = "update",
                                  !.pc = "expire", !.id = job_id])
       /\ UNCHANGED <<now, jobs, ret, rconn, rids, ridsExp, progVars, analysisVars>>

\* update, line 192: expire(key, DEFAULT_TTL)
ConcUpdateExpire(c) ==
    /\ calls[c].pc = "expire"
    /\ rkeys' = Expire(rkeys, calls[c].id, DEFAULT_TTL)
    /\ calls' = SetCall(c, IdleCall)
    /\ UNCHANGED <<now, jobs, ret, rconn, rids, ridsExp, progVars, analysisVars>>

\* The clock advances, whatever calls are in flight; Redis drops the keys
\* whose expiry time is reached.
ConcTick ==
    /\ now < MaxTime
    /\ now' = now + 1
    /\ rkeys' = [k \in {i \in DOMAIN rkeys :
                          rkeys[i].exp = NoExpire \/ now + 1 < rkeys[i].exp}
                   |-> rkeys[k]]
    /\ IF ridsExp # NoExpire /\ now + 1 >= ridsExp
       THEN rids' = {} /\ ridsExp' = NoExpire
       ELSE UNCHANGED <<rids, ridsExp>>
    /\ UNCHANGED <<jobs, ret, rconn, progVars, calls, analysisVars>>

ConcNext ==
    \/ \E c \in Clients, j \in JobIds, t \in CreateTasks : ConcCreate(c, j, t)
    \/ \E c \in Clients : ConcSweepMembers(c)
    \/ \E c \in Clients, j \in JobIds : ConcSweepTtl(c, j)
    \/ \E c \in Clients : ConcSweepFix(c)
    \/ \E c \in Clients, j \in JobIds, kw \in Kwargs : ConcUpdateHSet(c, j, kw)
    \/ \E c \in Clients : ConcUpdateExpire(c)
    \/ ConcTick

\* What list_all (lines 298-321) answers from the keys and the id set: the
\* members whose hash is found, or nothing when from_dict raises on one.
list_all(keys, ids) ==
    IF \E j \in ids : j \in DOMAIN keys /\ FromDictRaises(keys[j].h)
    THEN {}
    ELSE {j \in ids : j \in DOMAIN keys}

SpecRedisConc == ConcInit /\ [][ConcNext]_vars

\* ------------------------------------------------------- ProgressTracker
\* ProgressStage, in the order of the enumeration; ERROR is kept apart.
StageOrder ==
    << "start", "check_cache", "collect_basic", "collect_kline",
       "collect_financial", "collect_news", "calculate_technical",
       "ai_value_analysis", "ai_technical_analysis", "ai_growth_analysis",
       "ai_fundamental_analysis", "ai_risk_analysis", "ai_macro_analysis",
       "synthesize", "save_result", "complete" >>

ERROR == "error"

ProgressStage == {StageOrder[i] : i \in DOMAIN StageOrder} \cup {ERROR}

\* The position of a stage in the fixed order (0 for ERROR).
StageIndex(stage) ==
    IF stage = ERROR THEN 0
    ELSE CHOOSE i \in DOMAIN StageOrder : StageOrder[i] = stage

\* The stage_* helpers: the stage and the progress each one writes.
StageHelpers ==
    { [name |-> "stage_start",               stage |-> "start",                   progress |-> 0],
      [name |-> "stage_check_cache",         stage |-> "check_cache",             progress |-> 5],
      [name |-> "stage_collect_basic",       stage |-> "collect_basic",           progress |-> 10],
      [name |-> "stage_collect_kline",       stage |-> "collect_kline",           progress |-> 20],
      [name |-> "stage_calculate_technical", stage |-> "calculate_technical",     progress |-> 30],
      [name |-> "stage_collect_financial",   stage |-> "collect_financial",       progress |-> 35],
      [name |-> "stage_collect_news",        stage |-> "collect_news",            progress |-> 40],
      [name |-> "stage_ai_value",            stage |-> "ai_value_analysis",       progress |-> 50],
      [name |-> "stage_ai_technical",        stage |-> "ai_technical_analysis",   progress |-> 60],
      [name |-> "stage_ai_growth",           stage |-> "ai_growth_analysis",      progress |-> 70],
      [name |-> "stage_ai_fundamental",      stage |-> "ai_fundamental_analysis", progress |-> 80],
      [name |-> "stage_ai_risk",             stage |-> "ai_risk_analysis",        progress |-> 85],
      [name |-> "stage_ai_macro",            stage |-> "ai_macro_analysis",       progress |-> 90],
      [name |-> "stage_synthesize",          stage |-> "synthesize",              progress |-> 95],
      [name |-> "stage_complete",            stage |-> "complete",                progress |-> 100],
      [name |-> "stage_error",               stage |-> ERROR,                     progress |-> -1] }

\* ProgressTracker(job_id).__init__
NewTracker ==
    [stage |-> "start", progress |-> 0, message |-> "msg_start", error |-> None]

\* ProgressTracker.get under _lock: the tracker of job_id, made when missing.
GetOrCreate(insts, job_id) ==
    IF job_id \in DOMAIN insts THEN insts
    ELSE [k \in DOMAIN insts \cup {job_id} |->
             IF k = job_id THEN NewTracker ELSE insts[k]]

\* ProgressTracker.update: stage, progress and message are overwritten.
TrackerUpdate(tracker, stage, message, progress) ==
    [tracker EXCEPT !.stage = stage, !.progress = progress, !.message = message]

ProgInit ==
    /\ StoreInit
    /\ rconn = FALSE

storeVars == <<now, jobs, ret, redisVars>>

\* ProgressTracker.get(job_id), also reached from create_progress_tracker.
ProgGet(job_id) ==
    /\ instances' = GetOrCreate(instances, job_id)
    /\ pret' = PRet("get", job_id, "Tracker", instances'[job_id].stage,
                    instances'[job_id].progress)
    /\ UNCHANGED <<storeVars, extVars>>

ProgRemove(job_id) ==
    /\ instances' = [k \in DOMAIN instances \ {job_id} |-> instances[k]]
    /\ pret' = PRet("remove", job_id, None, None, 0)
    /\ UNCHANGED <<storeVars, extVars>>

\* get_progress: `tracker` comes from ProgressTracker.get and is an object
\* (always truthy), so the to_dict branch is the one taken.
GetProgress(job_id) ==
    /\ instances' = GetOrCreate(instances, job_id)
    /\ pret' = PRet("get_progress", job_id, "Dict", instances'[job_id].stage,
                    instances'[job_id].progress)
    /\ UNCHANGED <<storeVars, extVars>>

\* update_progress: the tracker of job_id (made when missing) is updated.
update_progress(insts, job_id, stage, message, progress) ==
    [GetOrCreate(insts, job_id) EXCEPT ![job_id] =
        TrackerUpdate(@, stage, message, progress)]

\* A direct call of update_progress(job_id, stage, message, progress).
UpdateProgress(job_id, stage, message, progress) ==
    /\ instances' = update_progress(instances, job_id, stage, message, progress)
    /\ pret' = PRet("update_progress", job_id, None, stage, progress)
    /\ UNCHANGED <<storeVars, extVars>>

\* One of the stage_* helpers: update_progress with the helper's stage,
\* message and progress.
StageHelper(job_id, helper) ==
    /\ instances' = update_progress(instances, job_id, helper.stage,
                                    helper.name, helper.progress)
    /\ pret' = PRet(helper.name, job_id, None, helper.stage, helper.progress)
    /\ UNCHANGED <<storeVars, extVars>>

ProgNext ==
    \/ \E j \in JobIds : ProgGet(j)
    \/ \E j \in JobIds : ProgRemove(j)
    \/ \E j \in JobIds : GetProgress(j)
    \/ \E j \in JobIds, h \in StageHelpers : StageHelper(j, h)
    \/ \E j \in JobIds, st \in ProgressStage, p \in {0, 100} :
          UpdateProgress(j, st, "msg", p)

SpecProgress == ProgInit /\ [][ProgNext]_vars

\* ------------------------------------------- scores and recommendations
\* utils/config.py (Config.AGENT_WEIGHTS, RECOMMENDATION_MAP,
\* get_recommendation) and main.py (generate_mock_analysis,
\* generate_dynamic_scores, generate_dynamic_summary).  A role score is a
\* whole number of points; weights are written in hundredths (0.25 is 25), so
\* a weighted sum and every score handed to a thresholding are in hundredths
\* of a point.
ScoreStep == 50         \* the grid of overall scores tried, in hundredths

\* p points, in hundredths of a point
Points(p) == p * 100

Scores == {s \in 0..Points(100) : s % ScoreStep = 0}

\* Config.AGENT_WEIGHTS
AGENT_WEIGHTS ==
    [value |-> 25, technical |-> 15, growth |-> 20, fundamental |-> 15,
     risk |-> 15, macro |-> 10, synthesizer |-> 0]

\* Weights with growth at 0.25.
MockWeightsAlt ==
    [value |-> 25, technical |-> 15, growth |-> 25, fundamental |-> 15,
     risk |-> 15, macro |-> 10]
\* The weights written out in generate_mock_analysis,
MockWeights ==
    [value |-> 25, technical |-> 15, growth |-> 20, fundamental |-> 15,
     risk |-> 15, macro |-> 10]

\* Weights with value at 0.35.
SummaryWeightsAlt ==
    [value |-> 35, technical |-> 15, growth |-> 20, fundamental |-> 15,
     risk |-> 15, macro |-> 10]
\* in generate_dynamic_summary,
SummaryWeights ==
    [value |-> 25, technical |-> 15, growth |-> 20, fundamental |-> 15,
     risk |-> 15, macro |-> 10]

\* and in the description of the synthesis task ("weight: 25%", ...).
PromptWeights ==
    [value |-> 25, technical |-> 15, growth |-> 20, fundamental |-> 15,
     risk |-> 15, macro |-> 10]

\* Config.get_agent_weight: self.AGENT_WEIGHTS.get(agent_role, 0.1)
get_agent_weight(agent_role) ==
    IF agent_role \in DOMAIN AGENT_WEIGHTS THEN AGENT_WEIGHTS[agent_role] ELSE 10

\* scores["value"] * 0.25 + scores["technical"] * 0.15 + ...
WeightedSum(W, sc) ==
    sc["value"] * W["value"] + sc["technical"] * W["technical"]
    + sc["growth"] * W["growth"] + sc["fundamental"] * W["fundamental"]
    + sc["risk"] * W["risk"] + sc["macro"] * W["macro"]

\* Config.RECOMMENDATION_MAP: threshold (points) -> recommendation
RECOMMENDATION_MAP ==
    (85 :> "strong_buy") @@ (75 :> "buy") @@ (60 :> "hold") @@ (50 :> "wait")

\* Config.get_recommendation: the thresholds are walked in sorted(), that is
\* ascending, order and the first one the score reaches decides.
get_recommendation(score) ==
    LET reached == {t \in DOMAIN RECOMMENDATION_MAP : score >= Points(t)}
        first == CHOOSE t \in reached : \A u \in reached : t <= u
    IN IF reached = {} THEN "sell" ELSE RECOMMENDATION_MAP[first]

\* A chain with its two top tiers exchanged.
MockRecommendationAlt(overall_score) ==
    IF overall_score >= Points(85) THEN "buy"
    ELSE IF overall_score >= Points(75) THEN "strong_buy"
    ELSE IF overall_score >= Points(60) THEN "hold"
    ELSE IF overall_score >= Points(50) THEN "wait"
    ELSE "sell"
\* The if/elif chain of generate_mock_analysis over overall_score.
MockRecommendation(overall_score) ==
    IF overall_score >= Points(85) THEN "strong_buy"
    ELSE IF overall_score >= Points(75) THEN "buy"
    ELSE IF overall_score >= Points(60) THEN "hold"
    ELSE IF overall_score >= Points(50) THEN "wait"
    ELSE "sell"

ScoreInit ==
    /\ StoreInit
    /\ rconn = FALSE

scoreRest == <<storeVars, progVars, calls, crewVars, svcVars, lateVars>>

\* config.get_recommendation(score)
GetRecommendation(score) ==
    /\ rcall' = [fn |-> "get_recommendation", score |-> score,
                 recommendation |-> get_recommendation(score)]
    /\ UNCHANGED <<scoreRest, wcall>>

\* generate_mock_analysis at the point where overall_score is known.
MockThreshold(overall_score) ==
    /\ rcall' = [fn |-> "generate_mock_analysis", score |-> overall_score,
                 recommendation |-> MockRecommendation(overall_score)]
    /\ UNCHANGED <<scoreRest, wcall>>

RecommendNext ==
    \/ \E s \in Scores : GetRecommendation(s)
    \/ \E s \in Scores : MockThreshold(s)

SpecRecommend == ScoreInit /\ [][RecommendNext]_vars

\* generate_dynamic_scores: the base of each role's score and the width of
\* the random part added to it (base + np.random.random() * width).
ScoreBase ==
    [value |-> 70, technical |-> 60, growth |-> 65, fundamental |-> 70,
     risk |-> 60, macro |-> 55]
ScoreWidth ==
    [value |-> 20, technical |-> 25, growth |-> 25, fundamental |-> 20,
     risk |-> 30, macro |-> 30]

\* The random draws tried: for every role the least or the greatest whole
\* number of points below the width.
Draws == {[r \in Roles |-> IF r \in hi THEN ScoreWidth[r] - 1 ELSE 0] :
             hi \in SUBSET Roles}

\* What the stock data says of peRatio, pbRatio, roe and debtRatio: "low"
\* and "high" are the two sides the code adjusts for, "mid" is a value in
\* between, or a missing or zero one, "null" is a key that is there with the
\* value None (which matters for peRatio and pbRatio only).
Levels == {"low", "mid", "high"}
StockData ==
    [pe : Levels \cup {"null"}, pb : Levels \cup {"null"}, roe : Levels,
     debt : Levels]

\* generate_mock_analysis, lines 371-375: int(None) and None * 10 raise
\* TypeError while the seed is computed.
MockRaises(data) == data.pe = "null" \/ data.pb = "null"

Clamp(x) == IF x < 0 THEN 0 ELSE IF x > 100 THEN 100 ELSE x

\* if x < a: score += low  elif x > b: score += high
Adjust(level, low, high) ==
    CASE level = "low" -> low
      [] level = "high" -> high
      [] OTHER -> 0

generate_dynamic_scores(draw, data) ==
    LET raw == [r \in Roles |-> ScoreBase[r] + draw[r]]
    IN [value |-> Clamp(raw["value"] + Adjust(data.pe, 15, -15)
                                      + Adjust(data.pb, 10, -10)),
        technical |-> Clamp(raw["technical"]),
        growth |-> Clamp(raw["growth"]),
        fundamental |-> Clamp(raw["fundamental"] + Adjust(data.roe, -15, 15)),
        risk |-> Clamp(raw["risk"] + Adjust(data.debt, 15, -20)),
        macro |-> Clamp(raw["macro"])]

\* float(f"{overall_score:.1f}"): the nearest tenth of a point, either
\* neighbour when the score lies half way (the binary value decides).
RoundTenth(x) ==
    LET down == (x \div 10) * 10
    IN IF x % 10 < 5 THEN {down}
       ELSE IF x % 10 > 5 THEN {down + 10}
       ELSE {down, down + 10}

\* What generate_mock_analysis returns for the scores drawn, the overall
\* score its summary prints included.
generate_mock_analysis(scores, shown) ==
    LET overall_score == WeightedSum(MockWeights, scores)
    IN [fn |-> "generate_mock_analysis", raised |-> FALSE, scores |-> scores,
        overall |-> overall_score, overallScore |-> shown,
        summary |-> WeightedSum(SummaryWeights, scores),
        recommendation |-> MockRecommendation(overall_score)]

\* generate_mock_analysis(symbol, stock_data); one analysis per behaviour.
GenerateMockAnalysis(draw, data) ==
    LET scores == generate_dynamic_scores(draw, data)
        overall_score == WeightedSum(MockWeights, scores)
    IN /\ wcall.fn = "none"
       /\ IF MockRaises(data)
          THEN wcall' = [NoWCall EXCEPT !.fn = "generate_mock_analysis",
                                        !.raised = TRUE]
          ELSE \E shown \in RoundTenth(overall_score) :
                  wcall' = generate_mock_analysis(scores, shown)
       /\ UNCHANGED <<scoreRest, rcall>>

\* The score vectors handed to generate_dynamic_summary.
SummaryScores == [Roles -> {0, 50, 100}]

\* generate_dynamic_summary(symbol, market, scores, recommendation, ...):
\* the overall score it prints.
GenerateDynamicSummary(scores, recommendation) ==
    LET overall_score == WeightedSum(SummaryWeights, scores)
    IN /\ wcall.fn = "none"
       /\ \E shown \in RoundTenth(overall_score) :
             wcall' = [fn |-> "generate_dynamic_summary", raised |-> FALSE,
                       scores |-> scores,
                       overall |-> overall_score, overallScore |-> shown,
                       summary |-> overall_score,
                       recommendation |-> recommendation]
       /\ UNCHANGED <<scoreRest, rcall>>

WeightedNext ==
    \/ \E d \in Draws, data \in StockData : GenerateMockAnalysis(d, data)
    \/ \E v \in SummaryScores : GenerateDynamicSummary(v, "hold")

SpecWeighted == ScoreInit /\ [][WeightedNext]_vars

\* ------------------------------------------------- parsing the crew result
\* agents/crew_agents.py: parse_crew_result and extract_analysis_from_text.
\* A text is a sequence of tokens separated by blanks:
\*   "os:"    overall score:          "85", "999"   numbers
\*   "rec:"   recommendation:         "1.2.3"       digits and dots, no number
\*   "conf:"  confidence:             "buy"         a word of rec_map
\*   "{" "}"  braces                  "soon"        a word not in rec_map
\*   "full"   the JSON members "overallScore": 85, "recommendation": "buy",
\*            "confidence": 80
\*   "part"   the JSON member "summary": "s"
MaxLen == 3             \* tokens in a text

Tokens == {"os:", "rec:", "conf:", "85", "999", "1.2.3", "buy", "soon",
           "{", "}", "full", "part", "odd"}

Texts == UNION {[1..n -> Tokens] : n \in 0..MaxLen}

\* What [\d.]+ matches, and what [a-z_]+ (IGNORECASE) matches at the start
\* of a token.
NumberLike == {"85", "999", "1.2.3"}
WordLike == {"buy", "soon", "os:", "rec:", "conf:"}

\* float(token): ValueError for digits and dots that are no number.
FloatRaises(token) == token = "1.2.3"
Float(token) == CASE token = "85" -> 85
                  [] token = "999" -> 999
                  [] OTHER -> 0

\* The word [a-z_]+ captures from a token, lower-cased.
Word(token) == CASE token = "os:" -> "overall"
                 [] token = "rec:" -> "recommendation"
                 [] token = "conf:" -> "confidence"
                 [] OTHER -> token

\* re.search(marker + separators + (group)): the leftmost marker that is
\* followed by a token the group matches; 0 when there is none.
Search(text, marker, group) ==
    LET hits == {i \in 1..(Len(text) - 1) :
                    text[i] = marker /\ text[i + 1] \in group}
    IN IF hits = {} THEN 0 ELSE CHOOSE i \in hits : \A k \in hits : i <= k

\* rec_map.get(word, "hold")
rec_map(word) ==
    IF word \in {"strong_buy", "buy", "hold", "wait", "sell"} THEN word ELSE "hold"

\* extract_analysis_from_text raises when float() does.
ExtractRaises(text) ==
    LET sm == Search(text, "os:", NumberLike)
        cm == Search(text, "conf:", NumberLike)
    IN \/ sm # 0 /\ FloatRaises(text[sm + 1])
       \/ cm # 0 /\ FloatRaises(text[cm + 1])

extract_analysis_from_text(text) ==
    LET sm == Search(text, "os:", NumberLike)
        rm == Search(text, "rec:", WordLike)
        cm == Search(text, "conf:", NumberLike)
    IN Analysis(AnalysisKeys,
                IF sm # 0 THEN Float(text[sm + 1]) ELSE 60,
                IF rm # 0 THEN rec_map(Word(text[rm + 1])) ELSE "hold",
                IF cm # 0 THEN Float(text[cm + 1]) ELSE 70,
                "text")

\* re.search(r"\{[\s\S]*\}", output): from the first "{" to the last "}"
\* after it; <<>> stands for no match (a match holds two braces at least).
JsonMatch(text) ==
    LET opens == {i \in 1..Len(text) : text[i] = "{"}
        first == CHOOSE i \in opens : \A k \in opens : i <= k
        closes == {j \in 1..Len(text) : text[j] = "}" /\ j > first}
        last == CHOOSE j \in closes : \A k \in closes : k <= j
    IN IF opens = {} THEN <<>>
       ELSE IF closes = {} THEN <<>>
       ELSE SubSeq(text, first, last)

\* The dict a JSON object with the given members is.
JsonObject(members) ==
    IF members = <<"full">>
    THEN Analysis(AnalysisKeys, 85, "buy", 80, "json")
    ELSE IF members = <<"odd">>
    THEN Analysis(AnalysisKeys, 999, "soon", 999, "json")
    ELSE Analysis({}, 0, None, 0, "json")

\* json.loads(match): JSONDecodeError unless the braces hold no member or
\* one well-formed member list.
JsonRaises(match) ==
    SubSeq(match, 2, Len(match) - 1)
        \notin {<<>>, <<"full">>, <<"part">>, <<"odd">>}

json_loads(match) == JsonObject(SubSeq(match, 2, Len(match) - 1))

\* The "default structure" of the except branch of parse_crew_result.
ParseFailed == Analysis(AnalysisKeys, 60, "hold", 50, "except")

\* What a task can put out: a string, a dict, or another object (TaskOutput).
StrOutput(text) == [kind |-> "str", text |-> text, members |-> <<>>]
DictOutput(members) == [kind |-> "dict", text |-> <<>>, members |-> members]
ObjectOutput == [kind |-> "object", text |-> <<>>, members |-> <<>>]

parse_crew_result(result) ==
    IF result.kind # "crew" THEN ParseFailed   \* no tasks_output: AttributeError
    ELSE LET output == IF result.tasks_output # <<>>
                       THEN result.tasks_output[Len(result.tasks_output)]
                       ELSE DictOutput(<<>>)
         IN IF output.kind = "str"
            THEN IF JsonMatch(output.text) # <<>>
                 THEN IF JsonRaises(JsonMatch(output.text)) THEN ParseFailed
                      ELSE json_loads(JsonMatch(output.text))
                 ELSE IF ExtractRaises(output.text) THEN ParseFailed
                      ELSE extract_analysis_from_text(output.text)
            ELSE IF output.kind = "dict"
                 THEN [JsonObject(output.members) EXCEPT !.via = "dict"]
                 ELSE EmptyDict

\* The values kickoff() may hand to parse_crew_result: an object whose
\* tasks_output is empty or ends with some output, or a value without
\* tasks_output (a plain string).
Outputs ==
    {StrOutput(t) : t \in Texts}
        \cup {DictOutput(<<"full">>), DictOutput(<<"part">>),
              DictOutput(<<"odd">>), ObjectOutput}

CrewResults ==
    {[kind |-> "crew", tasks_output |-> <<o>>] : o \in Outputs}
        \cup {[kind |-> "crew", tasks_output |-> <<>>],
              [kind |-> "str", tasks_output |-> <<>>]}

ParseInit ==
    /\ StoreInit
    /\ rconn = FALSE

\* parse_crew_result(result); one call per behaviour.
ParseCrewResult(result) ==
    /\ pcall.op = "none"
    /\ pcall' = [op |-> "parse_crew_result", result |-> result,
                 analysis |-> parse_crew_result(result)]
    /\ UNCHANGED <<storeVars, progVars, calls, scoreVars, svcVars, lateVars>>

ParseNext == \E result \in CrewResults : ParseCrewResult(result)

SpecParse == ParseInit /\ [][ParseNext]_vars

\* ------------------------------------------------------ /api/analyze
\*
\* analyze_stock calls run_crew_analysis, which builds the seven tasks and a
\* Crew with process=Process.sequential and calls kickoff(): the tasks run
\* one after the other in the order of the list, and an exception of a task
\* leaves kickoff(). run_crew_analysis raises it again, and analyze_stock
\* then answers with generate_mock_analysis.

\* The list create_analysis_tasks returns, a task named by its analyst role.
create_analysis_tasksAlt ==
    <<"synthesis", "value", "technical", "growth", "fundamental", "risk",
      "macro">>

create_analysis_tasks ==
    <<"value", "technical", "growth", "fundamental", "risk", "macro",
      "synthesis">>

\* What a task of the crew may put out.
TaskOutputs ==
    {StrOutput(<<"{", "full", "}">>), StrOutput(<<"os:", "85">>), ObjectOutput}

\* The stock data and the random draws of the requests tried.
AnalyzeData ==
    {d \in StockData : d.pb = "mid" /\ d.roe = "mid" /\ d.debt = "mid"
                        /\ d.pe \in {"low", "null"}}
AnalyzeDraws == {d \in Draws : \A r \in Roles : d[r] = 0}

AnalyzeInit ==
    /\ StoreInit
    /\ rconn = FALSE

analyzeRest ==
    <<storeVars, progVars, calls, scoreVars, crewVars, collect, llm, lateVars>>

\* POST /api/analyze up to crew.kickoff(); one request per behaviour.
AnalyzeStock(draw, data) ==
    /\ crew.pc = "idle"
    /\ crew' = [crew EXCEPT !.pc = "kickoff", !.draw = draw, !.data = data]
    /\ UNCHANGED <<analyzeRest, aresp>>

\* Process.sequential: the next task of the list starts when none runs.
CrewTaskStart ==
    /\ crew.pc = "kickoff"
    /\ crew.running = None
    /\ Len(crew.started) < Len(create_analysis_tasks)
    /\ LET task == create_analysis_tasks[Len(crew.started) + 1]
       IN crew' = [crew EXCEPT !.started = Append(@, task),
                               !.running = task]
    /\ UNCHANGED <<analyzeRest, aresp>>

\* The running task finishes with an output.
CrewTaskFinish(output) ==
    /\ crew.pc = "kickoff"
    /\ crew.running # None
    /\ crew' = [crew EXCEPT !.tasks_output = Append(@, output),
                            !.running = None]
    /\ UNCHANGED <<analyzeRest, aresp>>

\* The running task raises: kickoff() raises, run_crew_analysis prints and
\* raises again.
CrewTaskRaise ==
    /\ crew.pc = "kickoff"
    /\ crew.running # None
    /\ crew' = [crew EXCEPT !.pc = "raised", !.raised = crew.running,
                            !.running = None]
    /\ UNCHANGED <<analyzeRest, aresp>>

\* kickoff() returns after the last task; parse_crew_result reads the result
\* and analyze_stock answers.
AnalyzeReturn ==
    /\ crew.pc = "kickoff"
    /\ crew.running = None
    /\ Len(crew.started) = Len(create_analysis_tasks)
    /\ crew' = [crew EXCEPT !.pc = "done"]
    /\ aresp' = [status |-> 200, success |-> TRUE, source |-> "crew",
                 analysis |-> parse_crew_result(
                     [kind |-> "crew", tasks_output |-> crew.tasks_output]),
                 mock |-> NoWCall]
    /\ UNCHANGED analyzeRest

\* except Exception as crew_error: the answer is generate_mock_analysis, or
\* HTTP 500 when that raises too.
AnalyzeFallback ==
    /\ crew.pc = "raised"
    /\ crew' = [crew EXCEPT !.pc = "done"]
    /\ IF MockRaises(crew.data)
       THEN aresp' = [NoAResp EXCEPT !.status = 500]
       ELSE LET scores == generate_dynamic_scores(crew.draw, crew.data)
            IN \E shown \in RoundTenth(WeightedSum(MockWeights, scores)) :
                  aresp' = [status |-> 200, success |-> TRUE,
                            source |-> "mock", analysis |-> EmptyDict,
                            mock |-> generate_mock_analysis(scores, shown)]
    /\ UNCHANGED analyzeRest

AnalyzeNext ==
    \/ \E draw \in AnalyzeDraws, data \in AnalyzeData : AnalyzeStock(draw, data)
    \/ CrewTaskStart
    \/ \E output \in TaskOutputs : CrewTaskFinish(output)
    \/ CrewTaskRaise
    \/ AnalyzeReturn
    \/ AnalyzeFallback

SpecAnalyze == AnalyzeInit /\ [][AnalyzeNext]_vars

\* ------------------------------------------------------ /api/collect
\*
\* collect_stock_data dispatches on the market to collect_a_share,
\* collect_hk_stock or collect_us_stock, which call the collector of
\* data/collector.py and answer with generate_mock_stock_data whenever the
\* collector does not hand back a dict with a true "success".

Symbols == {"600519", "00700", "AAPL"}
Markets == {"A", "HK", "US"}
RequestMarkets == Markets \cup {"JP"}
CollectErrors == {"timeout", "no data", "rate limited"}

\* What the collectors of data/collector.py return: a StockAnalysisResult
\* dataclass with success and error.
StockAnalysisResult(success, error) ==
    [kind |-> "StockAnalysisResult", success |-> success, error |-> error]

\* collect_a_share / collect_hk_stock / collect_us_stock after the collector
\* has returned or raised: the data handed to collect_stock_data.
\* result.get("success") raises AttributeError on a dataclass, which the
\* except branch answers like every other exception.
collect_market(outcome, result) ==
    IF outcome = "raise" THEN "mock"
    ELSE IF result.kind # "dict" THEN "mock"
    ELSE IF result.success THEN "collected"
    ELSE "mock"

CollectInit ==
    /\ StoreInit
    /\ rconn = FALSE

collectRest ==
    <<storeVars, progVars, calls, scoreVars, crewVars, crew, aresp, llm,
      lateVars>>

\* POST /api/collect up to the call of the collector; an unknown market is
\* answered with HTTP 400. One request per behaviour.
CollectStockData(symbol, market) ==
    /\ collect.pc = "idle"
    /\ collect' =
          IF market \in Markets
          THEN [collect EXCEPT !.pc = "collecting", !.symbol = symbol,
                               !.market = market]
          ELSE [collect EXCEPT !.pc = "done", !.symbol = symbol,
                               !.market = market, !.status = 400,
                               !.detail = "unsupported market"]
    /\ UNCHANGED collectRest

\* The collector returns with success.
CollectorSucceeds ==
    /\ collect.pc = "collecting"
    /\ collect' = [collect EXCEPT !.pc = "collected", !.outcome = "success"]
    /\ UNCHANGED collectRest

\* The collector returns success=False with an error message.
CollectorFails(error) ==
    /\ collect.pc = "collecting"
    /\ collect' = [collect EXCEPT !.pc = "collected", !.outcome = "failure",
                                  !.error = error]
    /\ UNCHANGED collectRest

\* The collector raises.
CollectorRaises(error) ==
    /\ collect.pc = "collecting"
    /\ collect' = [collect EXCEPT !.pc = "collected", !.outcome = "raise",
                                  !.error = error]
    /\ UNCHANGED collectRest

\* collect_a_share / collect_hk_stock / collect_us_stock hand their data to
\* collect_stock_data, which answers success=True.
CollectReturn ==
    /\ collect.pc = "collected"
    /\ LET result == StockAnalysisResult(collect.outcome = "success",
                                         collect.error)
       IN collect' = [collect EXCEPT
              !.pc = "done", !.status = 200, !.success = TRUE,
              !.data = collect_market(collect.outcome, result)]
    /\ UNCHANGED collectRest

CollectNext ==
    \/ \E symbol \in Symbols, market \in RequestMarkets :
          CollectStockData(symbol, market)
    \/ CollectorSucceeds
    \/ \E error \in CollectErrors : CollectorFails(error)
    \/ \E error \in CollectErrors : CollectorRaises(error)
    \/ CollectReturn

SpecCollect == CollectInit /\ [][CollectNext]_vars

\* ------------------------------------------------- get_deepseek_llm
\*
\* get_deepseek_llm returns a SmartMockLLM when DEEPSEEK_API_KEY is set to
\* something other than the placeholder, and a BasicMockLLM otherwise; the
\* object is called with a list of messages.

ApiKeys == {"unset", "placeholder", "set"}

\* What stock_data says of peRatio, roe and debtRatio: a number on one side
\* of the thresholds, None, or no such key (None and {} as stock_data have
\* no key at all).
LlmData ==
    [pe : {"low", "high", "null", "missing"},
     roe : {"low", "high", "null", "missing"},
     debt : {"low", "null", "missing"}]

\* The messages tried: an empty list, a last message without "content", a
\* last message with the keyword of a role, or with none.
LlmMessages == {"empty", "no content", "other"} \cup Roles

\* The fixed string BasicMockLLM answers with.
BasicMockText == "mock result, configure DEEPSEEK_API_KEY"

\* SmartMockLLM.__call__ raises: KeyError for a message without "content",
\* TypeError where None is compared with a number.
SmartMockRaises(data, message) ==
    CASE message = "no content" -> TRUE
      [] message = "value" -> data.pe = "null"
      [] message = "fundamental" -> data.roe = "null" \/ data.debt = "null"
      [] message = "risk" -> data.debt = "null"
      [] message \in {"technical", "growth", "macro"} -> FALSE
      [] OTHER -> \/ data.pe = "null"
                  \/ data.pe = "low" /\ data.roe = "null"

LlmInit ==
    /\ StoreInit
    /\ rconn = FALSE

llmRest ==
    <<storeVars, progVars, calls, scoreVars, crewVars, crew, aresp, collect,
      lateVars>>

\* get_deepseek_llm(temperature, stock_data); one object per behaviour.
GetDeepseekLlm(api_key, data) ==
    /\ llm.pc = "idle"
    /\ llm' = IF api_key = "set"
              THEN [llm EXCEPT !.pc = "ready", !.class = "SmartMockLLM",
                               !.data = data]
              ELSE [llm EXCEPT !.pc = "ready", !.class = "BasicMockLLM"]
    /\ UNCHANGED llmRest

\* llm(messages)
LlmCall(message) ==
    /\ llm.pc = "ready"
    /\ llm' =
          IF llm.class = "BasicMockLLM"
          THEN [llm EXCEPT !.pc = "done", !.message = message,
                           !.out = "text", !.text = BasicMockText]
          ELSE IF SmartMockRaises(llm.data, message)
          THEN [llm EXCEPT !.pc = "done", !.message = message,
                           !.out = "raise"]
          ELSE [llm EXCEPT !.pc = "done", !.message = message,
                           !.out = "text",
                           !.text = IF message \in Roles THEN message
                                    ELSE "comprehensive"]
    /\ UNCHANGED llmRest

LlmNext ==
    \/ \E api_key \in ApiKeys, data \in LlmData : GetDeepseekLlm(api_key, data)
    \/ \E message \in LlmMessages : LlmCall(message)

SpecLlm == LlmInit /\ [][LlmNext]_vars

\* ------------------------------------------------------------- Config
\*
\* utils/config.py: the Config object is built from the environment and
\* changed by set_provider; validate_llm_config reads its LLM_API_KEY.
\* get_deepseek_llm reads DEEPSEEK_API_KEY from the environment itself.

\* LLM_PROVIDERS: api_base, models and env_key of each provider (the
\* env_key of provider p is P_API_KEY; the environment below is keyed by p).
LLM_PROVIDERS ==
    [deepseek |-> [api_base |-> "api.deepseek.com",
                   models |-> <<"deepseek-chat">>],
     minimax |-> [api_base |-> "api.minimax.chat",
                  models |-> <<"minimax-m2">>],
     zhipu |-> [api_base |-> "open.bigmodel.cn", models |-> <<"glm-4">>],
     qwen |-> [api_base |-> "dashscope.aliyuncs.com",
               models |-> <<"qwen-turbo", "qwen-plus", "qwen-max">>]]

Providers == DOMAIN LLM_PROVIDERS

DEFAULT_MODEL_MAP ==
    [deepseek |-> "deepseek-chat", minimax |-> "minimax-m2",
     zhipu |-> "glm-4", qwen |-> "qwen-max"]

DEFAULT_PROVIDER == "deepseek"

\* The placeholder keys validate_llm_config knows.
Placeholders ==
    {"sk-your_deepseek_api_key_here", "sk-your_minimax_api_key_here",
     "sk-your_zhipu_api_key_here", "sk-your_qwen_api_key_here"}

\* str.lower() on the provider names tried.
Lower(name) ==
    CASE name = "MiniMax" -> "minimax"
      [] name = "QWEN" -> "qwen"
      [] OTHER -> name

\* The environments tried: LLM_PROVIDER and LLM_MODEL unset (None) or set,
\* every provider's key unset, empty, a placeholder or a key.
KeyValues ==
    {None, "", "sk-your_deepseek_api_key_here",
     "sk-your_minimax_api_key_here", "sk-key"}
Environments ==
    [LLM_PROVIDER : {None, "minimax", "QWEN", "openai"},
     LLM_MODEL : {None, "glm-4"},
     keys : {k \in [Providers -> KeyValues] :
                k["zhipu"] \in {None, "sk-key"} /\ k["qwen"] = "sk-key"}]

\* Config(): the class attributes, then _load_from_env.
load_from_env(env) ==
    LET provider == IF env.LLM_PROVIDER = None THEN DEFAULT_PROVIDER
                    ELSE Lower(env.LLM_PROVIDER)
    IN IF provider \in Providers
       THEN [NoCfg EXCEPT
                !.pc = "loaded", !.env = env, !.op = "Config",
                !.LLM_PROVIDER = provider,
                !.LLM_API_BASE = LLM_PROVIDERS[provider].api_base,
                !.LLM_MODEL = IF env.LLM_MODEL \notin {None, ""}
                              THEN env.LLM_MODEL
                              ELSE DEFAULT_MODEL_MAP[provider],
                !.LLM_API_KEY = env.keys[provider]]
       ELSE [NoCfg EXCEPT !.pc = "loaded", !.env = env, !.op = "Config"]

\* not api_key
Falsy(api_key) == api_key \in {None, ""}

\* Config.validate_llm_config(): (ok, key, error)
validate_llm_config(c) ==
    IF Falsy(c.LLM_API_KEY)
    THEN [ok |-> FALSE, key |-> None, error |-> "not configured"]
    ELSE IF c.LLM_API_KEY \in Placeholders
    THEN [ok |-> FALSE, key |-> None, error |-> "set a valid key"]
    ELSE [ok |-> TRUE, key |-> c.LLM_API_KEY, error |-> None]

\* Config.set_provider(provider): the Config after the call.
set_provider(c, provider) ==
    IF Lower(provider) \in Providers
    THEN [c EXCEPT !.LLM_PROVIDER = Lower(provider),
                   !.LLM_API_BASE = LLM_PROVIDERS[Lower(provider)].api_base,
                   !.LLM_MODEL = DEFAULT_MODEL_MAP[Lower(provider)],
                   !.LLM_API_KEY = c.env.keys[Lower(provider)]]
    ELSE c

\* get_deepseek_llm, lines 19-21: what it makes of DEEPSEEK_API_KEY.
DeepseekKeyClassAlt(api_key) ==
    IF api_key = None THEN "unset"
    ELSE IF api_key = "sk-your_deepseek_api_key_here" THEN "placeholder"
    ELSE "set"

DeepseekKeyClass(api_key) ==
    IF Falsy(api_key) THEN "unset"
    ELSE IF api_key = "sk-your_deepseek_api_key_here" THEN "placeholder"
    ELSE "set"

ConfigInit ==
    /\ StoreInit
    /\ rconn = FALSE

configRest ==
    <<storeVars, progVars, calls, scoreVars, crewVars, crew, aresp, collect,
      ret2, gts, pget, sub, coll>>

\* Config() in a process with the given environment; one per behaviour.
NewConfig(env) ==
    /\ cfg.pc = "none"
    /\ cfg' = load_from_env(env)
    /\ UNCHANGED <<configRest, llm>>

ValidateLlmConfig ==
    /\ cfg.pc = "loaded"
    /\ LET r == validate_llm_config(cfg)
       IN cfg' = [cfg EXCEPT !.op = "validate_llm_config", !.arg = None,
                             !.ok = r.ok, !.key = r.key, !.error = r.error]
    /\ UNCHANGED <<configRest, llm>>

SetProvider(provider) ==
    /\ cfg.pc = "loaded"
    /\ cfg' = [set_provider(cfg, provider) EXCEPT
                  !.op = "set_provider", !.arg = provider,
                  !.ok = Lower(provider) \in Providers,
                  !.key = None, !.error = None]
    /\ UNCHANGED <<configRest, llm>>

\* get_deepseek_llm() in the same process; one object per behaviour.
ConfigGetLlm ==
    /\ cfg.pc = "loaded"
    /\ llm.pc = "idle"
    /\ llm' = IF DeepseekKeyClass(cfg.env.keys["deepseek"]) = "set"
              THEN [llm EXCEPT !.pc = "ready", !.class = "SmartMockLLM"]
              ELSE [llm EXCEPT !.pc = "ready", !.class = "BasicMockLLM"]
    /\ UNCHANGED <<configRest, cfg>>

ProviderArgs == Providers \cup {"MiniMax", "invalid_provider"}

ConfigNext ==
    \/ \E env \in Environments : NewConfig(env)
    \/ ValidateLlmConfig
    \/ \E provider \in ProviderArgs : SetProvider(provider)
    \/ ConfigGetLlm

SpecConfig == ConfigInit /\ [][ConfigNext]_vars

\* ------------------------------------- both job stores, the same calls
\*
\* A MemoryTaskStore and a RedisTaskStore (Redis reachable) receive the same
\* sequence of calls at the same times, one call per value of the clock:
\* ret holds what the MemoryTaskStore answered, ret2 what the RedisTaskStore
\* answered.

BothInit ==
    /\ StoreInit
    /\ rconn = TRUE

bothRest ==
    <<rconn, progVars, calls, scoreVars, crewVars, svcVars, cfg, gts, pget,
      sub, coll>>

BothCreate(job_id, task) ==
    LET t == [task EXCEPT !.created_at = now, !.updated_at = now]
        stored == [k \in DOMAIN jobs \cup {job_id} |->
                      IF k = job_id THEN t ELSE jobs[k]]
        k1 == Expire(HSet(rkeys, job_id, RedisEncode(t)), job_id, DEFAULT_TTL)
        i1 == rids \cup {job_id}
    IN /\ ret.op = "none"
       /\ jobs' = Mem_cleanup_expired(stored, now)
       /\ ret' = Ret("create", job_id, "True", NoTask, {})
       /\ IF ~RedisEncodable(t)
          THEN /\ UNCHANGED <<rkeys, rids, ridsExp>>
               /\ ret2' = Ret("create", job_id, "False", NoTask, {})
          ELSE /\ rkeys' = Redis_cleanup_keys(k1, i1)
               /\ rids' = Redis_cleanup_ids(k1, i1)
               /\ ridsExp' = now + DEFAULT_TTL
               /\ ret2' = Ret("create", job_id, "True", NoTask, {})
       /\ UNCHANGED <<now, bothRest>>

\* get(job_id) on both; of the answers only their kind is kept.
BothGet(job_id) ==
    /\ ret.op = "none"
    /\ IF job_id \in DOMAIN jobs
       THEN /\ jobs' = Mem_check_ttl(jobs, job_id, now)
            /\ ret' = Ret("get", job_id, "Task", NoTask, {})
       ELSE /\ jobs' = jobs
            /\ ret' = Ret("get", job_id, None, NoTask, {})
    /\ IF job_id \notin DOMAIN rkeys
       THEN ret2' = Ret("get", job_id, None, NoTask, {})
       ELSE IF FromDictRaises(rkeys[job_id].h)
            THEN ret2' = Ret("get", job_id, "raise TypeError", NoTask, {})
            ELSE ret2' = Ret("get", job_id, "Task", NoTask, {})
    /\ UNCHANGED <<now, rkeys, rids, ridsExp, bothRest>>

BothUpdate(job_id, kwargs) ==
    LET mapping == [f \in DOMAIN kwargs \cup {"updated_at"} |->
                       IF f = "updated_at" THEN now ELSE kwargs[f]]
    IN /\ ret.op = "none"
       /\ IF job_id \notin DOMAIN jobs
          THEN /\ jobs' = jobs
               /\ ret' = Ret("update", job_id, "False", NoTask, {})
          ELSE /\ jobs' = [jobs EXCEPT ![job_id] =
                             [SetAttrs(@, kwargs) EXCEPT !.updated_at = now]]
               /\ ret' = Ret("update", job_id, "True", NoTask, {})
       /\ rkeys' = Expire(HSet(rkeys, job_id, RedisEncode(mapping)),
                          job_id, DEFAULT_TTL)
       /\ ret2' = Ret("update", job_id, "True", NoTask, {})
       /\ UNCHANGED <<now, rids, ridsExp, bothRest>>

BothComplete(job_id, result) ==
    LET mapping == [status |-> "completed", progress |-> 100, stage |-> "complete",
                    message |-> "msg_complete", result |-> JsonDumps(result),
                    updated_at |-> now]
    IN /\ ret.op = "none"
       /\ IF job_id \notin DOMAIN jobs
          THEN /\ jobs' = jobs
               /\ ret' = Ret("complete", job_id, "False", NoTask, {})
          ELSE /\ jobs' = [jobs EXCEPT ![job_id] =
                             [@ EXCEPT !.status = "completed", !.progress = 100,
                                       !.stage = "complete",
                                       !.message = "msg_complete",
                                       !.result = result, !.updated_at = now]]
               /\ ret' = Ret("complete", job_id, "True", NoTask, {})
       /\ rkeys' = HSet(rkeys, job_id, RedisEncode(mapping))
       /\ ret2' = Ret("complete", job_id, "True", NoTask, {})
       /\ UNCHANGED <<now, rids, ridsExp, bothRest>>

BothFail(job_id, error) ==
    LET mapping == [status |-> "failed", stage |-> "error",
                    message |-> ErrorMessage(error), error |-> error,
                    updated_at |-> now]
    IN /\ ret.op = "none"
       /\ IF job_id \notin DOMAIN jobs
          THEN /\ jobs' = jobs
               /\ ret' = Ret("fail", job_id, "False", NoTask, {})
          ELSE /\ jobs' = [jobs EXCEPT ![job_id] =
                             [@ EXCEPT !.status = "failed", !.stage = "error",
                                       !.message = ErrorMessage(error),
                                       !.error = error, !.updated_at = now]]
               /\ ret' = Ret("fail", job_id, "True", NoTask, {})
       /\ rkeys' = HSet(rkeys, job_id, RedisEncode(mapping))
       /\ ret2' = Ret("fail", job_id, "True", NoTask, {})
       /\ UNCHANGED <<now, rids, ridsExp, bothRest>>

BothDelete(job_id) ==
    /\ ret.op = "none"
    /\ IF job_id \in DOMAIN jobs
       THEN /\ jobs' = [k \in DOMAIN jobs \ {job_id} |-> jobs[k]]
            /\ ret' = Ret("delete", job_id, "True", NoTask, {})
       ELSE /\ jobs' = jobs
            /\ ret' = Ret("delete", job_id, "False", NoTask, {})
    /\ rkeys' = Del(rkeys, job_id)
    /\ rids' = rids \ {job_id}
    /\ ridsExp' = IF rids \ {job_id} = {} THEN NoExpire ELSE ridsExp
    /\ ret2' = Ret("delete", job_id, "True", NoTask, {})
    /\ UNCHANGED <<now, bothRest>>

BothListAll ==
    /\ ret.op = "none"
    /\ ret' = Ret("list_all", 0, "Dict", NoTask, DOMAIN jobs)
    /\ IF \E j \in rids : j \in DOMAIN rkeys /\ FromDictRaises(rkeys[j].h)
       THEN ret2' = Ret("list_all", 0, "raise TypeError", NoTask, {})
       ELSE ret2' = Ret("list_all", 0, "Dict", NoTask,
                        {j \in rids : j \in DOMAIN rkeys})
    /\ UNCHANGED <<now, jobs, rkeys, rids, ridsExp, bothRest>>

\* The clock advances; Redis drops the keys whose expiry time is reached.
BothTick ==
    /\ now < MaxTime
    /\ now' = now + 1
    /\ rkeys' = [k \in {i \in DOMAIN rkeys :
                          rkeys[i].exp = NoExpire \/ now + 1 < rkeys[i].exp}
                   |-> rkeys[k]]
    /\ IF ridsExp # NoExpire /\ now + 1 >= ridsExp
       THEN rids' = {} /\ ridsExp' = NoExpire
       ELSE UNCHANGED <<rids, ridsExp>>
    /\ ret' = NoRet
    /\ ret2' = NoRet
    /\ UNCHANGED <<jobs, bothRest>>

BothNext ==
    \/ \E j \in JobIds, t \in CreateTasks : BothCreate(j, t)
    \/ \E j \in JobIds : BothGet(j)
    \/ \E j \in JobIds, kw \in Kwargs : BothUpdate(j, kw)
    \/ \E j \in JobIds, r \in Results : BothComplete(j, r)
    \/ \E j \in JobIds, e \in Errors : BothFail(j, e)
    \/ \E j \in JobIds : BothDelete(j)
    \/ BothListAll
    \/ BothTick

SpecBoth == BothInit /\ [][BothNext]_vars

\* ------------------------------------------------------ get_task_store
\*
\* get_task_store() asks RedisTaskStore.get_instance() for the singleton,
\* which connects once, when it is built; it returns the singleton when
\* is_available() and a new MemoryTaskStore() otherwise. A store is kept as
\* the set of job ids created through it (no TTL passes in this
\* specification); the jobs of the RedisTaskStore live in Redis.

GtsInit ==
    /\ StoreInit
    /\ rconn = FALSE

gtsRest ==
    <<storeVars, progVars, calls, scoreVars, crewVars, svcVars, cfg, ret2,
      pget, sub, coll>>

\* Redis becomes reachable, or unreachable.
GtsRedisUp ==
    /\ ~gts.up
    /\ gts' = [gts EXCEPT !.up = TRUE, !.op = "none"]
    /\ UNCHANGED gtsRest

GtsRedisDown ==
    /\ gts.up
    /\ gts' = [gts EXCEPT !.up = FALSE, !.op = "none"]
    /\ UNCHANGED gtsRest

\* RedisTaskStore.get_instance(): _connect() runs when the instance is made;
\* "connected" stands for _redis is not None.
get_instance(g) ==
    IF g.instance # None THEN g.instance
    ELSE IF g.up THEN "connected" ELSE "unconnected"

\* RedisTaskStore.is_available(): _redis is not None and ping() answers.
is_available(instance, up) == instance = "connected" /\ up

\* get_task_store()
GetTaskStore ==
    /\ Len(gts.stores) < MaxStores
    /\ LET instance == get_instance(gts)
           store == IF is_available(instance, gts.up)
                    THEN [kind |-> "redis", jobs |-> {}]
                    ELSE [kind |-> "memory", jobs |-> {}]
       IN gts' = [gts EXCEPT !.instance = instance,
                             !.stores = Append(@, store),
                             !.op = "get_task_store",
                             !.h = Len(gts.stores) + 1, !.id = 0,
                             !.found = FALSE]
    /\ UNCHANGED gtsRest

\* store.create(job_id, task) on the store the h-th call returned.
GtsCreate(h, job_id) ==
    /\ h \in DOMAIN gts.stores
    /\ IF gts.stores[h].kind = "memory"
       THEN gts' = [gts EXCEPT !.stores[h].jobs = @ \cup {job_id},
                               !.op = "create", !.h = h, !.id = job_id,
                               !.found = TRUE]
       ELSE IF gts.up
       THEN gts' = [gts EXCEPT !.rjobs = @ \cup {job_id},
                               !.op = "create", !.h = h, !.id = job_id,
                               !.found = TRUE]
       ELSE gts' = [gts EXCEPT !.op = "create", !.h = h, !.id = job_id,
                               !.found = FALSE]
    /\ UNCHANGED gtsRest

\* store.get(job_id) on the store the h-th call returned.
GtsGet(h, job_id) ==
    /\ h \in DOMAIN gts.stores
    /\ gts' = [gts EXCEPT
                  !.op = "get", !.h = h, !.id = job_id,
                  !.found = IF gts.stores[h].kind = "memory"
                            THEN job_id \in gts.stores[h].jobs
                            ELSE gts.up /\ job_id \in gts.rjobs]
    /\ UNCHANGED gtsRest

GtsNext ==
    \/ GtsRedisUp
    \/ GtsRedisDown
    \/ GetTaskStore
    \/ \E h \in 1..MaxStores, j \in JobIds : GtsCreate(h, j)
    \/ \E h \in 1..MaxStores, j \in JobIds : GtsGet(h, j)

SpecTaskStore == GtsInit /\ [][GtsNext]_vars

\* --------------------------------------- ProgressTracker.get, coroutines
\*
\* Coroutines of one event loop inside ProgressTracker.get and remove. Each
\* runs `async with cls._lock`, then the test of _instances, then the
\* construction or the deletion, then leaves the block. A tracker is known by
\* the number of its construction; pget.returned[j] holds the trackers that
\* get(j) handed out since the last remove(j). A coroutine keeps whether
\* another one was inside get for the same id when its call began (overlap).

Coroutines == 1..NumCoroutines

TrackerGetInit ==
    /\ StoreInit
    /\ rconn = FALSE

pgetRest ==
    <<storeVars, progVars, calls, scoreVars, crewVars, svcVars, cfg, ret2,
      gts, sub, coll>>

\* asyncio.Lock: acquire() goes through when the lock is not held (0: no
\* coroutine holds it).
UnlockedAlt(lock) == TRUE
Unlocked(lock) == lock = 0

\* await ProgressTracker.get(job_id) / remove(job_id) is begun.
TrackerCall(c, op, job_id) ==
    /\ pget.co[c].pc = "idle"
    /\ pget.n < MaxGets
    /\ pget' = [pget EXCEPT !.n = @ + 1,
                            !.co[c] = [pc |-> "acquire", op |-> op,
                                       id |-> job_id, val |-> 0,
                                       overlap |->
                                           \E d \in Coroutines \ {c} :
                                               /\ pget.co[d].pc # "idle"
                                               /\ pget.co[d].op = "get"
                                               /\ pget.co[d].id = job_id]]
    /\ UNCHANGED pgetRest

\* async with cls._lock: __aenter__
TrackerAcquire(c) ==
    /\ pget.co[c].pc = "acquire"
    /\ Unlocked(pget.lock)
    /\ pget' = [pget EXCEPT !.lock = c, !.co[c].pc = "check"]
    /\ UNCHANGED pgetRest

\* if job_id not in cls._instances:
TrackerGetCheck(c) ==
    /\ pget.co[c].pc = "check"
    /\ pget.co[c].op = "get"
    /\ pget' = [pget EXCEPT !.co[c].pc = IF pget.co[c].id \in DOMAIN pget.reg
                                         THEN "return" ELSE "create"]
    /\ UNCHANGED pgetRest

\* cls._instances[job_id] = ProgressTracker(job_id)
TrackerGetCreate(c) ==
    /\ pget.co[c].pc = "create"
    /\ LET j == pget.co[c].id
           t == pget.made + 1
       IN pget' = [pget EXCEPT
                      !.made = t,
                      !.reg = [k \in DOMAIN pget.reg \cup {j} |->
                                  IF k = j THEN t ELSE pget.reg[k]],
                      !.co[c].pc = "return"]
    /\ UNCHANGED pgetRest

\* return cls._instances[job_id], leaving the lock (0: KeyError)
TrackerGetReturn(c) ==
    /\ pget.co[c].pc = "return"
    /\ LET j == pget.co[c].id
           t == IF j \in DOMAIN pget.reg THEN pget.reg[j] ELSE 0
       IN pget' = [pget EXCEPT
                      !.lock = 0,
                      !.returned[j] = @ \cup {t},
                      !.co[c].pc = "idle", !.co[c].val = t]
    /\ UNCHANGED pgetRest

\* if job_id in cls._instances: del cls._instances[job_id], leaving the lock
TrackerRemove(c) ==
    /\ pget.co[c].pc = "check"
    /\ pget.co[c].op = "remove"
    /\ LET j == pget.co[c].id
       IN pget' = [pget EXCEPT
                      !.lock = 0,
                      !.reg = [k \in DOMAIN pget.reg \ {j} |-> pget.reg[k]],
                      !.returned[j] = {},
                      !.co[c].pc = "idle"]
    /\ UNCHANGED pgetRest

TrackerGetNext ==
    \/ \E c \in Coroutines, op \in {"get", "remove"}, j \in JobIds :
          TrackerCall(c, op, j)
    \/ \E c \in Coroutines : TrackerAcquire(c)
    \/ \E c \in Coroutines : TrackerGetCheck(c)
    \/ \E c \in Coroutines : TrackerGetCreate(c)
    \/ \E c \in Coroutines : TrackerGetReturn(c)
    \/ \E c \in Coroutines : TrackerRemove(c)

SpecTrackerGet == TrackerGetInit /\ [][TrackerGetNext]_vars

\* ------------------------------------ ProgressTracker.update, subscribers
\*
\* One tracker, its subscribers list and the callbacks on it. A callback is
\* known by what it does when it is called: "plain" and "late" return,
\* "raises" raises, "leaver" unsubscribes itself, "joiner" subscribes "late"
\* unless it is subscribed. After an update sub.start is the list when it
\* began and sub.invoked the callbacks it called, in order.

Callbacks == {"plain", "raises", "leaver", "joiner", "late"}

SubscribersInit ==
    /\ StoreInit
    /\ rconn = FALSE

subRest ==
    <<storeVars, progVars, calls, scoreVars, crewVars, svcVars, cfg, ret2,
      gts, pget, coll>>

Elements(list) == {list[k] : k \in DOMAIN list}

\* subscribe: self.subscribers.append(callback)
subscribe(subscribers, callback) == Append(subscribers, callback)

\* unsubscribe: if callback in self.subscribers: remove(callback); a callback
\* is on the list at most once here.
unsubscribe(subscribers, callback) ==
    SelectSeq(subscribers, LAMBDA x : x # callback)

\* callback(update) inside the try of the loop: the list the call leaves.
\* An exception of the callback is caught and passed.
CallCallback(callback, subscribers) ==
    CASE callback = "leaver" -> unsubscribe(subscribers, "leaver")
      [] callback = "joiner" ->
            IF "late" \in Elements(subscribers) THEN subscribers
            ELSE subscribe(subscribers, "late")
      [] OTHER -> subscribers

\* for callback in self.subscribers: the list iterator keeps an index into
\* the list itself and stops when the index reaches its length.
RECURSIVE Notify(_, _, _)
Notify(subscribers, i, invoked) ==
    IF i > Len(subscribers)
    THEN [subscribers |-> subscribers, invoked |-> invoked]
    ELSE Notify(CallCallback(subscribers[i], subscribers), i + 1,
                Append(invoked, subscribers[i]))

\* tracker.subscribe(callback) between updates
Subscribe(callback) ==
    /\ callback \notin Elements(sub.subscribers)
    /\ sub' = [sub EXCEPT !.subscribers = subscribe(@, callback),
                          !.op = "subscribe", !.start = <<>>,
                          !.invoked = <<>>]
    /\ UNCHANGED subRest

\* tracker.unsubscribe(callback) between updates
Unsubscribe(callback) ==
    /\ sub' = [sub EXCEPT !.subscribers = unsubscribe(@, callback),
                          !.op = "unsubscribe", !.start = <<>>,
                          !.invoked = <<>>]
    /\ UNCHANGED subRest

\* await tracker.update(stage, message, progress)
SubscribersUpdate(stage, message, progress) ==
    /\ LET done == Notify(sub.subscribers, 1, <<>>)
       IN sub' = [subscribers |-> done.subscribers, stage |-> stage,
                  progress |-> progress, message |-> message,
                  op |-> "update", start |-> sub.subscribers,
                  invoked |-> done.invoked]
    /\ UNCHANGED subRest

\* The arguments of update that are tried.
UpdateArgs ==
    {[stage |-> "collect_basic", message |-> "msg_collect", progress |-> 10],
     [stage |-> "complete", message |-> "msg_complete", progress |-> 100]}

SubscribersNext ==
    \/ \E callback \in Callbacks : Subscribe(callback)
    \/ \E callback \in Callbacks : Unsubscribe(callback)
    \/ \E args \in UpdateArgs :
          SubscribersUpdate(args.stage, args.message, args.progress)

SpecSubscribers == SubscribersInit /\ [][SubscribersNext]_vars

\* -------------------------------------------------- collect_a_share_data
\*
\* collect_a_share_data(symbol) of data/collector.py and of
\* data/enhanced_collector.py: the same retry loop around different fetches.
\* An attempt either reaches `result.success = True; return result` or
\* raises an Exception out of the outer try, with result.basic filled or not
\* by then. coll.outcomes lists what the attempts did ("ok" or the text of
\* the exception); coll.returned tells whether the call has returned its
\* result ("result") or left the loop without a return ("None").

max_retries == 3

CollectModules == {"collector", "enhanced_collector"}
AShareSymbols == {"000001", "600519"}

CollectAInit ==
    /\ StoreInit
    /\ rconn = FALSE

collRest ==
    <<storeVars, progVars, calls, scoreVars, crewVars, svcVars, cfg, ret2,
      gts, pget, sub>>

\* if attempt < max_retries - 1: sleep and try again
RetryAgainAlt(attempt) == attempt < max_retries
RetryAgain(attempt) == attempt < max_retries - 1

\* result = StockAnalysisResult(...); the loop begins with attempt 0
CollectAShareData(module, symbol) ==
    /\ coll.pc = "idle"
    /\ coll' = [coll EXCEPT !.pc = "try", !.module = module,
                            !.symbol = symbol, !.attempt = 0]
    /\ UNCHANGED collRest

\* the try block runs to its end: result.success = True; return result
AttemptSucceeds ==
    /\ coll.pc = "try"
    /\ coll' = [coll EXCEPT !.pc = "returned",
                            !.outcomes = Append(@, "ok"),
                            !.basic = TRUE, !.success = TRUE,
                            !.returned = "result"]
    /\ UNCHANGED collRest

\* the try block raises e, with result.basic assigned before or not
AttemptRaises(e, basic) ==
    /\ coll.pc = "try"
    /\ IF RetryAgain(coll.attempt)
       THEN coll' = [coll EXCEPT !.pc = "sleep",
                                 !.outcomes = Append(@, e),
                                 !.basic = @ \/ basic]
       ELSE coll' = [coll EXCEPT !.pc = "returned",
                                 !.outcomes = Append(@, e),
                                 !.basic = @ \/ basic,
                                 !.error = e, !.returned = "result"]
    /\ UNCHANGED collRest

\* asyncio.sleep(1 * 2**attempt) is over: the next value of range(max_retries),
\* or the end of the loop and of the function
SleepEnds ==
    /\ coll.pc = "sleep"
    /\ IF coll.attempt + 1 < max_retries
       THEN coll' = [coll EXCEPT !.pc = "try", !.attempt = @ + 1]
       ELSE coll' = [coll EXCEPT !.pc = "returned", !.returned = "None"]
    /\ UNCHANGED collRest

CollectASteps ==
    \/ AttemptSucceeds
    \/ \E e \in CollectErrors, basic \in BOOLEAN : AttemptRaises(e, basic)
    \/ SleepEnds

CollectANext ==
    \/ \E module \in CollectModules, symbol \in AShareSymbols :
          CollectAShareData(module, symbol)
    \/ AttemptSucceeds
    \/ \E e \in CollectErrors, basic \in BOOLEAN : AttemptRaises(e, basic)
    \/ SleepEnds

\* The data source answers or fails in the end, and a sleep ends.
SpecCollectA ==
    CollectAInit /\ [][CollectANext]_vars /\ WF_vars(CollectASteps)

\* ================================================================ claims

\* A TaskData as create() leaves it: the defaults, stamped at time t.
FreshTask(task, t) ==
    task = [TaskData(task.symbol, task.market) EXCEPT !.created_at = t, !.updated_at = t]

\* C1: a job created at time T and never updated is returned as absent by
\* every get(id) at a time >= T + TTL, the first read after expiry included:
\* a get that returns such a job is made before T + TTL.
C1_ExpiredJobReadsAbsent ==
    (ret.op = "get" /\ ret.val = "Task" /\ FreshTask(ret.task, ret.task.created_at))
        => now < ret.task.created_at + job_ttl

\* C2: a job terminates exactly once: once its status is completed or failed,
\* no later create, update, complete or fail on the same id changes it.
C2_TerminatesExactlyOnce ==
    [][\A j \in DOMAIN jobs \cap DOMAIN jobs' :
          jobs[j].status \in {"completed", "failed"}
              => jobs'[j].status = jobs[j].status]_vars

\* The ids whose record in Redis was written by create().
RedisCreated == {j \in DOMAIN rkeys : "created_at" \in DOMAIN rkeys[j].h}

\* C3: get(id) never raises, and returns None for every id that has no live
\* job record, whatever create, update, complete, fail and delete calls
\* came before (also for ids never created).
C3_GetNeverRaises ==
    ret.op = "get" =>
        /\ ret.val \in {None, "Task"}
        /\ ret.id \notin RedisCreated => ret.val = None

\* C4: get_progress of a job id that has no tracker yet returns None and
\* yields no progress record for that id.
C4_UnknownIdIsNotFound ==
    [][\A j \in JobIds :
          (pret'.op = "get_progress" /\ pret'.id = j /\ j \notin DOMAIN instances)
              => (pret'.val = None /\ j \notin DOMAIN instances')]_vars

HelperNames == {h.name : h \in StageHelpers}

\* The progress the stage_* helper of a stage writes.
HelperProgress(stage) ==
    (CHOOSE h \in StageHelpers : h.stage = stage).progress

HelperStages == {h.stage : h \in StageHelpers}

\* C5: when the stages are visited in the fixed order through the stage_*
\* helpers, the progress written at a stage is within [0,100] and not below
\* the progress written at the stage before it.
C5_ProgressNonDecreasing ==
    [][\A j \in DOMAIN instances \cap DOMAIN instances' :
          LET old == instances[j]
              new == instances'[j]
          IN (/\ pret'.op \in HelperNames \ {"stage_error"}
              /\ pret'.id = j
              /\ old.stage \in HelperStages \ {ERROR}
              /\ old.progress = HelperProgress(old.stage)
              /\ StageIndex(new.stage) = StageIndex(old.stage) + 1)
                 => (new.progress >= old.progress /\ new.progress \in 0..100)]_vars

UpdateOps == HelperNames \cup {"update_progress"}

\* C6: within one job every update moves the stage strictly forward in the
\* fixed order, and error is absorbing.
C6_StagesStrictlyMonotonic ==
    [][\A j \in DOMAIN instances \cap DOMAIN instances' :
          LET old == instances[j].stage
              new == instances'[j].stage
          IN (pret'.op \in UpdateOps /\ pret'.id = j)
                 => /\ old = ERROR => new = ERROR
                    /\ (old # ERROR /\ new # ERROR)
                           => StageIndex(new) > StageIndex(old)]_vars

\* C7: a job's result is non-null only if its status is completed, and its
\* error is non-null only if its status is failed.
C7_ResultAndErrorMatchStatus ==
    \A j \in DOMAIN jobs :
        /\ jobs[j].result # None => jobs[j].status = "completed"
        /\ jobs[j].error # None => jobs[j].status = "failed"

\* C8: every failed job carries the progress sentinel -1, in the job store
\* after fail() as in the progress tracker after stage_error.
C8_FailedJobHasSentinel ==
    /\ \A j \in DOMAIN jobs : jobs[j].status = "failed" => jobs[j].progress = -1
    /\ (pret.op = "stage_error" /\ pret.id \in DOMAIN instances)
           => instances[pret.id].progress = -1

\* C9: every write refreshes the record's TTL: a job leaves the store by
\* expiry only once a full TTL has elapsed since its latest write.
C9_ExpiryCountsFromLastWrite ==
    [][\A j \in DOMAIN jobs :
          (j \notin DOMAIN jobs' /\ ~(ret'.op = "delete" /\ ret'.id = j))
              => now - jobs[j].updated_at >= job_ttl]_vars

\* The jobs in the store that are within their TTL.
LiveJobs == {j \in DOMAIN jobs : now - jobs[j].created_at < job_ttl}

\* C10: the number of live jobs in the store never exceeds the cap.
C10_LiveJobsWithinCap == Cardinality(LiveJobs) <= max_jobs

\* C11: operations on different ids never interfere: whatever the
\* interleaving of the clients' commands, a command of a call on job A (an
\* update, or a create and the sweep it triggers) leaves the hash of every
\* other listed job B as it was and B listed by list_all.
C11_OtherJobsUndisturbed ==
    [][\A c \in Clients :
          calls'[c] # calls[c] =>
              LET A == IF calls[c].op = "idle" THEN calls'[c].id ELSE calls[c].id
              IN \A B \in list_all(rkeys, rids) \ {A} :
                    /\ B \in DOMAIN rkeys'
                    /\ rkeys'[B].h = rkeys[B].h
                    /\ B \in list_all(rkeys', rids')]_vars

\* The tier the thresholds assign to a score (in hundredths of a point).
Tier(score) ==
    IF score >= Points(85) THEN "strong_buy"
    ELSE IF score >= Points(75) THEN "buy"
    ELSE IF score >= Points(60) THEN "hold"
    ELSE IF score >= Points(50) THEN "wait"
    ELSE "sell"

\* C12: Config.get_recommendation and generate_mock_analysis both return,
\* for every overall score in [0,100], strong_buy from 85, buy from 75 to
\* below 85, hold from 60 to below 75, wait from 50 to below 60, sell below.
C12_RecommendationTiers ==
    rcall.fn # "none" => rcall.recommendation = Tier(rcall.score)

\* sell < wait < hold < buy < strong_buy
TierRank(recommendation) ==
    CASE recommendation = "sell" -> 0
      [] recommendation = "wait" -> 1
      [] recommendation = "hold" -> 2
      [] recommendation = "buy" -> 3
      [] recommendation = "strong_buy" -> 4

\* C13: thresholding is a monotonic step function: of two scores s1 <= s2
\* given to the same function, s2 never gets a lower tier than s1.
C13_TiersMonotonic ==
    [][(rcall.fn # "none" /\ rcall'.fn = rcall.fn /\ rcall.score <= rcall'.score)
          => TierRank(rcall.recommendation) <= TierRank(rcall'.recommendation)]_vars

\* C13 witness: the mock analysis has moved a score up across a threshold.
C13_Witness ==
    /\ rcall.fn = "generate_mock_analysis"
    /\ rcall.score = Points(85)
    /\ rcall.recommendation = "strong_buy"

\* The sum of the weights a table gives the six independent roles.
TotalWeight(W) ==
    W["value"] + W["technical"] + W["growth"] + W["fundamental"] + W["risk"]
    + W["macro"]

C15_OverallScoreInRange ==
    (wcall.fn # "none" /\ ~wcall.raised
        /\ \A r \in Roles : wcall.scores[r] \in 0..100)
        => /\ wcall.overall \in 0..Points(100)
           /\ wcall.summary \in 0..Points(100)
           /\ wcall.overallScore \in 0..Points(100)

\* C15 witness: all six scores at 100 give the overall score 100.
C15_Witness ==
    /\ wcall.fn = "generate_dynamic_summary"
    /\ \A r \in Roles : wcall.scores[r] = 100
    /\ wcall.overall = Points(100)

\* The last output of the parsed result, when it is a string.
ParsedText ==
    IF pcall.result.kind = "crew" /\ pcall.result.tasks_output # <<>>
       /\ pcall.result.tasks_output[Len(pcall.result.tasks_output)].kind = "str"
    THEN pcall.result.tasks_output[Len(pcall.result.tasks_output)].text
    ELSE <<"{", "}">>

\* The text has none of the three markers and no braces.
NoMarkers(text) ==
    \A i \in 1..Len(text) : text[i] \notin {"os:", "rec:", "conf:", "{", "}"}

\* C20: parsing is total: for every input (empty text, garbage, text without
\* markers, an output that is no text) the parser returns a result that has
\* a score, a confidence and a recommendation, each at its default (60, 70,
\* hold) when the text has no marker for it.
C20_ParsingIsTotal ==
    pcall.op # "none" =>
        /\ AnalysisKeys \subseteq pcall.analysis.has
        /\ NoMarkers(ParsedText) =>
              /\ pcall.analysis.overallScore = 60
              /\ pcall.analysis.confidence = 70
              /\ pcall.analysis.recommendation = "hold"

\* The analyst tasks that finished in the crew run, and those whose outputs
\* the answer of /api/analyze is made from.
FinishedTasks ==
    {crew.started[i] : i \in 1..Len(crew.tasks_output)}
GenuineRoles ==
    IF aresp.source = "crew" THEN FinishedTasks \cap Roles ELSE {}

\* C16: when one of the six analyst tasks raises during an analysis, the
\* request is still answered with a report made from the crew run that holds
\* the genuine results of the other five analysts; the failure does not
\* fail the analysis and does not discard the other results.
C16_FanOutIsolation ==
    (aresp.status # 0 /\ crew.raised \in Roles) =>
        /\ aresp.status = 200
        /\ aresp.success
        /\ aresp.source = "crew"
        /\ Roles \ {crew.raised} \subseteq GenuineRoles

\* C18: the synthesis task starts only after all six analyst tasks have
\* finished, and no task starts after it.
C18_SynthesisLast ==
    [][Len(crew'.started) > Len(crew.started) =>
          /\ "synthesis" \notin FinishedTasks \cup {crew.running}
          /\ crew'.running = "synthesis" =>
                (Roles \subseteq FinishedTasks /\ crew.running = None)]_vars

\* The synthesis task has run and finished after the six analyst tasks.
C18_Witness ==
    /\ crew.pc = "done"
    /\ aresp.source = "crew"
    /\ Len(crew.tasks_output) = 7
    /\ crew.started[7] = "synthesis"

\* C17: when the collector reports failure or raises, the request ends as
\* failed with the collector's error message, is not reported as a success
\* and returns no substitute data.
C17_CollectFailureSurfaced ==
    (collect.pc = "done" /\ collect.outcome \in {"failure", "raise"}) =>
        /\ collect.status # 200
        /\ ~collect.success
        /\ collect.detail = collect.error
        /\ collect.data = "none"

CanonicalLabels == {"strong_buy", "buy", "hold", "wait", "sell"}

\* The text holds a recommendation marker followed by a canonical label.
RecognisedLabel(text) ==
    /\ Search(text, "rec:", WordLike) # 0
    /\ Word(text[Search(text, "rec:", WordLike) + 1]) \in CanonicalLabels

\* C21: the recommendation of every parsed analysis result is one of the
\* five canonical labels, and it is hold when the parsed text (one without a
\* JSON object) has no recommendation marker or an unrecognised token after
\* it.
C21_CanonicalLabel ==
    pcall.op # "none" =>
        /\ "recommendation" \in pcall.analysis.has =>
              pcall.analysis.recommendation \in CanonicalLabels
        /\ (JsonMatch(ParsedText) = <<>> /\ ~RecognisedLabel(ParsedText)) =>
              pcall.analysis.recommendation = "hold"

\* C22: the score and the confidence of every parsed analysis result lie in
\* [0,100], whatever numbers the text holds.
C22_ScoreAndConfidenceInRange ==
    pcall.op # "none" =>
        /\ "overallScore" \in pcall.analysis.has =>
              pcall.analysis.overallScore \in 0..100
        /\ "confidence" \in pcall.analysis.has =>
              pcall.analysis.confidence \in 0..100

\* The key the environment holds for the provider the Config has selected.
SelectedKey == cfg.env.keys[cfg.LLM_PROVIDER]

SameProvider(c) ==
    \E p \in Providers :
        /\ c.LLM_PROVIDER = p
        /\ c.LLM_API_BASE = LLM_PROVIDERS[p].api_base
        /\ \E i \in DOMAIN LLM_PROVIDERS[p].models :
              c.LLM_MODEL = LLM_PROVIDERS[p].models[i]

\* C24: set_provider(p) with a known provider returns True and leaves the
\* provider p, its default model and its endpoint; with an unknown provider
\* it returns False; and after any sequence of set_provider calls the
\* provider, the model and the endpoint belong to the same provider.
C24_SetProviderConsistent ==
    cfg.op = "set_provider" =>
        /\ cfg.ok <=> Lower(cfg.arg) \in Providers
        /\ cfg.ok => (/\ cfg.LLM_PROVIDER = Lower(cfg.arg)
                      /\ cfg.LLM_MODEL = DEFAULT_MODEL_MAP[cfg.LLM_PROVIDER]
                      /\ cfg.LLM_API_BASE
                            = LLM_PROVIDERS[cfg.LLM_PROVIDER].api_base)
        /\ SameProvider(cfg)

\* The fields of a job the RedisTaskStore exposes, as text.
SameJob(task, h) ==
    /\ {"status", "stage", "progress", "result", "error"} \subseteq DOMAIN h
    /\ task.status = h.status
    /\ task.stage = h.stage
    /\ ToString(task.progress) = h.progress
    /\ task.result = h.result
    /\ task.error = h.error

\* C25: driven with the same calls, the MemoryTaskStore and the
\* RedisTaskStore return the same flags and expose the same jobs with the
\* same status, stage, progress, result and error.
C25_StoresInterchangeable ==
    /\ ret.val = ret2.val
    /\ ret.ids = ret2.ids
    /\ DOMAIN jobs = DOMAIN rkeys
    /\ \A j \in DOMAIN jobs \cap DOMAIN rkeys : SameJob(jobs[j], rkeys[j].h)

\* The ids get and list_all of the RedisTaskStore know.
RedisKnown(keys, ids) == DOMAIN keys \cup {j \in ids : j \in DOMAIN keys}

\* C26: update, complete and fail with a job id that has no record return
\* False and leave the store as it is: no record appears for the id, and the
\* ids known to get and list_all stay the same, in the MemoryTaskStore as in
\* the RedisTaskStore.
C26_MissingIdLeavesStore ==
    [][ret'.op \in {"update", "complete", "fail"} =>
          /\ ret'.id \notin DOMAIN jobs =>
                (ret'.val = "False" /\ jobs' = jobs)
          /\ ret'.id \notin DOMAIN rkeys =>
                /\ ret2'.val = "False"
                /\ rkeys' = rkeys
                /\ RedisKnown(rkeys', rids') = RedisKnown(rkeys, rids)]_vars

\* The calls of get_task_store that were answered with a MemoryTaskStore,
\* which is the answer whenever Redis is unavailable.
MemoryStores == {h \in DOMAIN gts.stores : gts.stores[h].kind = "memory"}

\* C27: when Redis is unavailable every call of get_task_store yields the
\* same job store: a job created through the store of one call is found by
\* get(id) on the store of any later call.
C27_OneFallbackStore ==
    (gts.op = "get" /\ gts.h \in MemoryStores
        /\ \E h \in MemoryStores :
              h <= gts.h /\ gts.id \in gts.stores[h].jobs)
        => gts.found

\* C28: the calls of ProgressTracker.get for one job id that return with no
\* remove of that id in between all return one tracker, the registered one,
\* whatever the interleaving of the coroutines.
C28_OneTrackerPerJob ==
    \A j \in JobIds :
        pget.returned[j] # {} =>
            /\ j \in DOMAIN pget.reg
            /\ pget.returned[j] = {pget.reg[j]}

\* Two coroutines were inside get for the same job id at the same time, no
\* remove has run, and both have returned.
C28_Witness ==
    \E c, d \in Coroutines :
        /\ c # d
        /\ pget.co[c].pc = "idle" /\ pget.co[d].pc = "idle"
        /\ pget.co[c].op = "get" /\ pget.co[d].op = "get"
        /\ pget.co[c].id = pget.co[d].id
        /\ pget.co[d].overlap
        /\ pget.n = 2
        /\ pget.co[c].val = pget.co[d].val
        /\ pget.co[c].val \in pget.returned[pget.co[c].id]

\* How many times a callback occurs in a list.
Occurrences(list, callback) ==
    Cardinality({k \in DOMAIN list : list[k] = callback})

\* C29: an update invokes each callback that was subscribed when it began
\* exactly once, also when a callback raises, subscribes or unsubscribes
\* during the notification.
C29_EachSubscriberOnce ==
    sub.op = "update" =>
        \A callback \in Elements(sub.start) :
            Occurrences(sub.invoked, callback) = 1

\* The attempts before the last one all failed.
EarlierFailed ==
    \A k \in 1..(Len(coll.outcomes) - 1) : coll.outcomes[k] # "ok"

\* What holds of a call of collect_a_share_data at every moment.
CollectASafe ==
    /\ Len(coll.outcomes) <= 3
    /\ coll.pc = "returned" =>
          /\ coll.returned = "result"
          /\ coll.success <=> coll.error = None
          /\ coll.success =>
                /\ coll.outcomes[Len(coll.outcomes)] = "ok"
                /\ EarlierFailed
          /\ ~coll.success =>
                /\ Len(coll.outcomes) = 3
                /\ "ok" \notin {coll.outcomes[k] : k \in 1..3}
                /\ coll.error = coll.outcomes[3]

\* C30: collect_a_share_data ends with a result: it makes at most 3
\* attempts, returns success = True from the first attempt that succeeds,
\* and after three failures success = False with the last failure as error;
\* success is True exactly when error is null.
C30_RetryEndsWithResult ==
    /\ []CollectASafe
    /\ (coll.pc = "try") ~> (coll.pc = "returned")

\* Three attempts failed and the call has returned.
C30_Witness ==
    /\ coll.pc = "returned"
    /\ Len(coll.outcomes) = 3
    /\ ~coll.success
    /\ coll.error = coll.outcomes[3]
    /\ coll.outcomes[1] # coll.outcomes[3]

====
